---- MODULE Spec2Model ----
(***************************************************************************)
(* A model of bevy_gpu_fluid: the 2D SPH engine (src/src/cpu/sph2d.rs),    *)
(* the compressed neighbour grid (src/src/gpu/buffers.rs), the parallel    *)
(* grid-build passes and the render-graph nodes that dispatch them         *)
(* (src/src/gpu/grid_build.rs, src/src/gpu/pipeline.rs) and the frame loop *)
(* of the GPU demo (src/examples/gpu_demo.rs).                             *)
(*                                                                         *)
(* Positions are integers in position units; a cell is H units wide, so    *)
(* cell(pos, h) = floor(pos / h) is a real conversion.  Indices are        *)
(* 0-based as in the source: an array is a function on 0..len-1.           *)
(***************************************************************************)
EXTENDS Integers, Sequences, FiniteSets, Bags, TLC

VARIABLES
    \* ---- grid builders (buffers.rs build_compressed_grid, sph2d.rs build_grid)
    particles,   \* SPHState.particles: positions, indexed 0..N-1
    cgrid,       \* what build_compressed_grid returned (or that it panicked)
    hgrid,       \* what SPHState::build_grid returned
    \* ---- the parallel grid build (grid_build.rs buffers, pipeline.rs nodes)
    g_num_cells, \* GridBuildParams.num_cells
    counts,      \* grid_counts buffer
    starts,      \* grid_starts buffer
    block_sums,  \* grid_block_sums buffer
    cursor,      \* grid_cursor buffer
    entries_buf, \* the entries buffer the scatter pass writes
    phase,       \* the pass that is running
    items,       \* per particle work item of the running pass: its progress
    \* ---- a render frame (pipeline.rs prepare_* systems and render-graph nodes)
    fphase,      \* where the frame is: prepare, queue, graph
    pipes,       \* per compute pipeline: none, queued, compiled, ready
    ran,         \* the nodes the graph runner has run this frame, in order
    dispatched,  \* the dispatches and copies encoded this frame, in order
    \* ---- the GPU demo's frame loop (gpu_demo.rs, buffers.rs systems)
    dphase,      \* where the frame is: update, extract, render
    systems_run, \* the Update systems that have run this frame
    use_gpu_integration, \* UseGpuIntegration
    host_ver,    \* the tick whose positions the host SPHState holds
    gpu_ver,     \* the tick whose positions the GPU particle buffer holds
    rb_ver,      \* the tick whose positions the readback buffer holds
    grid_ver,    \* the tick whose positions the grid buffers were built from
    allow_copy,  \* AllowCopy
    ext_allow_copy, \* ExtractedAllowCopy
    fsm,         \* sync_sprites_from_gpu's Local<u8>
    consumed,    \* what the last tick's density and force stages read
    \* ---- SPHState::step (sph2d.rs)
    tick,        \* the number of calls of step so far
    step_pc,     \* the statement step is at
    step_i,      \* the loop index of the running loop
    cpu,         \* per particle and field: the tick that last wrote it
    rho_vec,     \* density_pressure_calc's rho_vec
    acc_vec,     \* accel_field_calc's acc_vec
    \* ---- SPHState by value (sph2d.rs)
    sph,         \* the engine: h, rho_0, k, m and particles
    init_args,   \* what the caller passed to init_grid
    step_args,   \* what the caller of step passes for the boundaries
    integrated,  \* per particle: pos and vel after integrate's two updates
    acc_terms,   \* per particle: the terms accel_field_calc added up
    epc,         \* the last engine operation that ran
    eticks,      \* the number of completed steps of the engine
    \* ---- the grid build of the frame before
    prev_grid,   \* what the last build left, once the grid is built again
    \* ---- the readback systems (buffers.rs, examples)
    rb_sys,      \* the system that reads the readback buffer
    rb_state,    \* its Local<u8> state machine
    rb_done,     \* readback_and_compare's Local<bool> done
    rb_frames,   \* readback_and_compare's frames_seen, up to FRAMES_BEFORE_RD
    rb_pc,       \* where the running call is: "out" between two calls
    map_status,  \* the AtomicU8 the map callback stores: 0 pending, 1 ok, 2 err
    rb_mapped,   \* whether the readback buffer is mapped
    rb_log,      \* what the last attempt did, in order
    rb_last,     \* how the last attempt ended
    rb_cpu,      \* sph.particles as the attempt sees them
    rb_gpu,      \* the particles the readback buffer holds
    rb_report,   \* the PASS / FAIL lines of the validation
    rb_outcome   \* how the run ended: "none" while it goes on

gridVars == <<particles, cgrid, hgrid>>
gpuVars == <<g_num_cells, counts, starts, block_sums, cursor, entries_buf,
             phase, items>>
frameVars == <<fphase, pipes, ran, dispatched>>
demoVars == <<dphase, systems_run, use_gpu_integration, host_ver, gpu_ver,
              rb_ver, grid_ver, allow_copy, fsm, consumed>>
stepVars == <<tick, step_pc, step_i, cpu, rho_vec, acc_vec>>
engVars == <<sph, init_args, step_args, integrated, acc_terms, epc, eticks>>

\* The state of the operations modelled by value.
rbVars == <<rb_sys, rb_state, rb_done, rb_frames, rb_pc, map_status,
           rb_mapped, rb_log, rb_last, rb_cpu, rb_gpu, rb_report, rb_outcome>>
otherVars == <<engVars, prev_grid, rbVars>>

\* The state of the grid builds, the frame, the demo and the staged step.
baseVars == <<gridVars, gpuVars, frameVars, demoVars, ext_allow_copy, stepVars>>

\* What the engine by value leaves alone.
engRest == <<baseVars, prev_grid, rbVars>>

\* What the grid builders and the grid-build passes leave alone.
restVars == <<frameVars, demoVars, ext_allow_copy, stepVars, otherVars>>

vars == <<baseVars, otherVars>>

\* No frame is being rendered.
FrameIdle ==
    /\ fphase = "off"
    /\ pipes = <<>>
    /\ ran = <<>>
    /\ dispatched = <<>>

\* The demo's frame loop is not running.
DemoIdle ==
    /\ dphase = "off"
    /\ systems_run = {}
    /\ use_gpu_integration = TRUE
    /\ host_ver = 0
    /\ gpu_ver = 0
    /\ rb_ver = 0
    /\ grid_ver = 0
    /\ allow_copy = TRUE
    /\ fsm = 0
    /\ consumed = <<>>

\* step has not been called.
StepIdle ==
    /\ tick = 0
    /\ step_pc = <<"idle">>
    /\ step_i = 0
    /\ cpu = <<>>
    /\ rho_vec = <<>>
    /\ acc_vec = <<>>

\* No engine has been constructed.
EngIdle ==
    /\ sph = <<>>
    /\ init_args = <<>>
    /\ step_args = <<>>
    /\ integrated = <<>>
    /\ acc_terms = <<>>
    /\ epc = "none"
    /\ eticks = 0

\* The grid has been built at most once.
NoPrevGrid == [built |-> FALSE]

\* No readback system is installed.
RbIdle ==
    /\ rb_sys = "none"
    /\ rb_state = 0
    /\ rb_done = FALSE
    /\ rb_frames = 0
    /\ rb_pc = "out"
    /\ map_status = 0
    /\ rb_mapped = FALSE
    /\ rb_log = <<>>
    /\ rb_last = "none"
    /\ rb_cpu = <<>>
    /\ rb_gpu = <<>>
    /\ rb_report = <<>>
    /\ rb_outcome = "none"

OtherIdle == EngIdle /\ prev_grid = NoPrevGrid /\ RbIdle

RestIdle ==
    FrameIdle /\ DemoIdle /\ ext_allow_copy = TRUE /\ StepIdle /\ OtherIdle

\* ------------------------------------------------------------------ bounds

MaxParticles == 3
XMax == 1
YMax == 2
H == 2
MaxBlocks == 2

\* What a buffer that outlives the frame may hold from the frame before.
Stale == 5

\* ----------------------------------------------------------------- helpers

Min(a, b) == IF a < b THEN a ELSE b
Max(a, b) == IF a > b THEN a ELSE b

ArrLen(a) == Cardinality(DOMAIN a)

\* vec![v; n]
ArrFill(n, v) == [i \in 0 .. n - 1 |-> v]

\* The indices of array a that hold v.
IndicesOf(a, v) == {i \in DOMAIN a : a[i] = v}

RECURSIVE SumOver(_, _)
\* The sum of a[i] over the indices i in set idx.
SumOver(a, idx) ==
    IF idx = {} THEN 0
    ELSE LET i == CHOOSE i \in idx : TRUE
         IN a[i] + SumOver(a, idx \ {i})

\* ------------------------------------------------------- i32 arithmetic

I32_MAX == 2147483647
I32_MIN == -2147483647 - 1

\* a - b on i32: whether it overflows, and the wrapped result of a release
\* build (computed without leaving the 32-bit range).
I32Sub(a, b) ==
    IF b > 0 /\ a < I32_MIN + b
    THEN [ov |-> TRUE, val |-> (a - I32_MIN) + (I32_MAX - b) + 1]
    ELSE IF b < 0 /\ a > I32_MAX + b
    THEN [ov |-> TRUE, val |-> (a - I32_MAX) + (I32_MIN - b) - 1]
    ELSE [ov |-> FALSE, val |-> a - b]

\* a + 1 on i32.
I32Inc(a) ==
    IF a = I32_MAX THEN [ov |-> TRUE, val |-> I32_MIN]
    ELSE [ov |-> FALSE, val |-> a + 1]

\* max_c - min_c + 1, one component of dims (buffers.rs line 397).
DimOf(lo, hi) ==
    LET d == I32Sub(hi, lo)
        e == I32Inc(d.val)
    IN [ov |-> d.ov \/ e.ov, val |-> e.val]

\* ------------------------------------------------------------ cell index

\* (pos / h).floor().as_ivec2()
cell(pos, h) == <<pos[1] \div h, pos[2] \div h>>

cell_ix(pos, h) == <<pos[1] \div h, pos[2] \div h>>

\* ------------------------------------------------ build_compressed_grid

RECURSIVE BoundsLoop(_, _, _, _)
\* The first loop: the bounding cell range of particles i.. (lines 390-396).
BoundsLoop(ps, i, min_c, max_c) ==
    IF i >= ArrLen(ps) THEN [min_c |-> min_c, max_c |-> max_c]
    ELSE LET c == cell_ix(ps[i], H)
         IN BoundsLoop(ps, i + 1,
                       <<Min(min_c[1], c[1]), Min(min_c[2], c[2])>>,
                       <<Max(max_c[1], c[1]), Max(max_c[2], c[2])>>)

\* id = ix + iy * nx, with ix = (c.x - min_c.x) as usize (lines 405-408).
CellId(pos, min_c, nx) ==
    LET c == cell_ix(pos, H)
    IN (c[1] - min_c[1]) + (c[2] - min_c[2]) * nx

RECURSIVE CountsLoop(_, _, _, _, _)
\* The histogram loop (lines 403-411): counts, or "bad" once an id is out of
\* range (the debug assertion, or the bounds check of counts[id]).
CountsLoop(ps, i, min_c, nx, cnt) ==
    IF i >= ArrLen(ps) THEN [bad |-> FALSE, counts |-> cnt]
    ELSE LET id == CellId(ps[i], min_c, nx)
         IN IF id \notin DOMAIN cnt
            THEN [bad |-> TRUE, counts |-> cnt]
            ELSE CountsLoop(ps, i + 1, min_c, nx,
                            [cnt EXCEPT ![id] = @ + 1])

\* starts[i + 1] = starts[i] + counts[i]
StartsStepInclusive(st, cnt, i) ==
    [st EXCEPT ![i] = st[i] + cnt[i]]

StartsStep(st, cnt, i) ==
    [st EXCEPT ![i + 1] = st[i] + cnt[i]]

RECURSIVE StartsLoop(_, _, _, _)
\* The prefix-sum loop (lines 413-416): the loop body for i = lo .. hi-1 in
\* order, the range split in halves so that the evaluation stays shallow.
\* The loop body never changes the array's length, so the test on the
\* domains always holds; it makes the first half's result a value before the
\* second half is entered.
StartsLoop(st, cnt, lo, hi) ==
    IF lo >= hi THEN st
    ELSE IF hi = lo + 1 THEN StartsStep(st, cnt, lo)
    ELSE LET mid == (lo + hi) \div 2
             half == StartsLoop(st, cnt, lo, mid)
         IN IF DOMAIN half = DOMAIN st
            THEN StartsLoop(half, cnt, mid, hi)
            ELSE half

ExclusiveStarts(cnt) ==
    StartsLoop(ArrFill(ArrLen(cnt) + 1, 0), cnt, 0, ArrLen(cnt))

\* entries[offsets[id]] = pi without *dst += 1
ScatterStepNoAdvance(st, id, pi) ==
    IF st.offsets[id] \notin DOMAIN st.entries
    THEN [st EXCEPT !.bad = TRUE]
    ELSE [st EXCEPT !.entries[st.offsets[id]] = pi]

\* One iteration of the scatter loop (lines 425-428).
ScatterStep(st, id, pi) ==
    IF st.offsets[id] \notin DOMAIN st.entries
    THEN [st EXCEPT !.bad = TRUE]
    ELSE [st EXCEPT !.entries[st.offsets[id]] = pi,
                    !.offsets[id] = @ + 1]

RECURSIVE ScatterLoop(_, _, _, _, _)
\* The scatter loop (lines 418-429).
ScatterLoop(ps, pi, min_c, nx, st) ==
    IF pi >= ArrLen(ps) \/ st.bad THEN st
    ELSE ScatterLoop(ps, pi + 1, min_c, nx,
                     ScatterStep(st, CellId(ps[pi], min_c, nx), pi))

NoGrid ==
    [st |-> "none", why |-> "", min_c |-> <<0, 0>>, nx |-> 0, ny |-> 0,
     num_cells |-> 0, starts |-> <<>>, entries |-> <<>>]

Panic(why) == [NoGrid EXCEPT !.st = "panic", !.why = why]

\* build_compressed_grid(sph) under a build profile ("debug" checks integer
\* overflow and debug assertions, "release" wraps and skips them).
build_compressed_grid(ps, profile) ==
    LET b == BoundsLoop(ps, 0, <<I32_MAX, I32_MAX>>, <<I32_MIN, I32_MIN>>)
        dx == DimOf(b.min_c[1], b.max_c[1])
        dy == DimOf(b.min_c[2], b.max_c[2])
        nx == Max(dx.val, 1)
        ny == Max(dy.val, 1)
        num_cells == nx * ny
        n == ArrLen(ps)
        cnt == CountsLoop(ps, 0, b.min_c, nx, ArrFill(num_cells, 0))
        sts == ExclusiveStarts(cnt.counts)
        sc == ScatterLoop(ps, 0, b.min_c, nx,
                          [bad |-> FALSE, offsets |-> sts,
                           entries |-> ArrFill(n, 0)])
    IN IF profile = "debug" /\ (dx.ov \/ dy.ov) THEN Panic("overflow")
       ELSE IF cnt.bad
       THEN Panic(IF profile = "debug" THEN "debug_assert" ELSE "index")
       ELSE IF sc.bad THEN Panic("index")
       ELSE [st |-> "ok", why |-> "", min_c |-> b.min_c, nx |-> nx, ny |-> ny,
             num_cells |-> num_cells, starts |-> sts,
             entries |-> sc.entries]

\* ------------------------------------------------- SPHState::build_grid

\* grid.insert(key, vec![i]): the list is replaced, not extended
GridInsertOverwrite(grid, key, i) ==
    [k \in DOMAIN grid \cup {key} |->
        IF k = key THEN <<i>> ELSE grid[k]]

\* grid.entry(key).or_default().push(i)
GridPush(grid, key, i) ==
    [k \in DOMAIN grid \cup {key} |->
        IF k = key
        THEN (IF key \in DOMAIN grid THEN Append(grid[key], i) ELSE <<i>>)
        ELSE grid[k]]

RECURSIVE BuildGridLoop(_, _, _)
BuildGridLoop(ps, i, grid) ==
    IF i >= ArrLen(ps) THEN grid
    ELSE BuildGridLoop(ps, i + 1, GridPush(grid, cell(ps[i], H), i))

EmptyMap == [k \in {} |-> <<>>]

build_grid(ps) == BuildGridLoop(ps, 0, EmptyMap)

\* ------------------------------------------------- grid specification

Positions == (-1 .. XMax) \X (0 .. YMax)

Profiles == {"debug", "release"}

NoHashGrid == [built |-> FALSE, map |-> EmptyMap]

\* The parallel grid build before its buffers exist.
GpuIdle ==
    /\ g_num_cells = 0
    /\ counts = <<>>
    /\ starts = <<>>
    /\ block_sums = <<>>
    /\ cursor = <<>>
    /\ entries_buf = <<>>
    /\ phase = "idle"
    /\ items = <<>>

GridInit ==
    /\ \E n \in 0 .. MaxParticles : particles \in [0 .. n - 1 -> Positions]
    /\ cgrid = NoGrid
    /\ hgrid = NoHashGrid
    /\ GpuIdle
    /\ RestIdle

\* GridBuffers::new / GridBuffers::update call build_compressed_grid(sph).
BuildCompressedGrid ==
    /\ cgrid.st = "none"
    /\ \E profile \in Profiles :
          cgrid' = build_compressed_grid(particles, profile)
    /\ UNCHANGED <<particles, hgrid, gpuVars, restVars>>

\* density_pressure_calc / accel_field_calc / the tests call build_grid().
BuildGrid ==
    /\ ~hgrid.built
    /\ hgrid' = [built |-> TRUE, map |-> build_grid(particles)]
    /\ UNCHANGED <<particles, cgrid, gpuVars, restVars>>

GridNext == BuildCompressedGrid \/ BuildGrid

GridSpec == GridInit /\ [][GridNext]_vars

\* --------------------------------------------------- claims on the grids

NumParticles == ArrLen(particles)

\* The cell coordinate of position pos: floor(pos / H) per component.
FloorCell(pos) == <<pos[1] \div H, pos[2] \div H>>

\* The cell coordinate that cell id c of grid g stands for (row-major, x fastest).
CoordOfId(g, c) == <<g.min_c[1] + (c % g.nx), g.min_c[2] + (c \div g.nx)>>

\* The entries slice of cell c, as the set of its slots.
SlotsOf(g, c) == {k \in DOMAIN g.entries : g.starts[c] <= k /\ k < g.starts[c + 1]}

RECURSIVE SumLens(_, _)
SumLens(map, keys) ==
    IF keys = {} THEN 0
    ELSE LET k == CHOOSE k \in keys : TRUE
         IN Len(map[k]) + SumLens(map, keys \ {k})

\* C1: in the grid build_compressed_grid returns, the slice
\* entries[starts[c]..starts[c+1]] of every cell c holds exactly the indices of
\* the particles whose cell is c, and every particle index 0..N-1 appears in
\* entries exactly once.
C1_CompressedGridPartition ==
    cgrid.st = "ok" =>
        /\ \A c \in 0 .. cgrid.num_cells - 1 :
              /\ {cgrid.entries[k] : k \in SlotsOf(cgrid, c)}
                    = {i \in DOMAIN particles :
                          FloorCell(particles[i]) = CoordOfId(cgrid, c)}
              /\ \A k1, k2 \in SlotsOf(cgrid, c) :
                    cgrid.entries[k1] = cgrid.entries[k2] => k1 = k2
        /\ \A i \in DOMAIN particles :
              Cardinality(IndicesOf(cgrid.entries, i)) = 1

\* A grid of several cells in which one cell holds two particles and the
\* counting sort moved a particle away from its own index.
C1_Witness ==
    /\ cgrid.st = "ok"
    /\ NumParticles = 3
    /\ cgrid.num_cells >= 2
    /\ \E c \in 0 .. cgrid.num_cells - 1 : Cardinality(SlotsOf(cgrid, c)) = 2
    /\ cgrid.entries[0] # 0

\* C2: for a non-empty particle set build_compressed_grid returns (it does not
\* panic: the assertion id < num_cells never fails) starts of length
\* num_cells + 1 with starts[0] = 0, non-decreasing, starts[num_cells] = N,
\* entries of length N, and every particle's id ix + iy * nx in [0, num_cells).
C2_StartsShape ==
    (cgrid.st # "none" /\ NumParticles > 0) =>
        /\ cgrid.st = "ok"
        /\ DOMAIN cgrid.starts = 0 .. cgrid.num_cells
        /\ cgrid.starts[0] = 0
        /\ \A c \in 0 .. cgrid.num_cells - 1 :
              cgrid.starts[c] <= cgrid.starts[c + 1]
        /\ cgrid.starts[cgrid.num_cells] = NumParticles
        /\ DOMAIN cgrid.entries = 0 .. NumParticles - 1
        /\ \A i \in DOMAIN particles :
              LET id == (FloorCell(particles[i])[1] - cgrid.min_c[1])
                        + (FloorCell(particles[i])[2] - cgrid.min_c[2]) * cgrid.nx
              IN 0 <= id /\ id < cgrid.num_cells

\* A 2 x 2 grid built from particles that leave one of its cells empty.
C2_Witness ==
    /\ cgrid.st = "ok"
    /\ NumParticles > 0
    /\ cgrid.nx = 2 /\ cgrid.ny = 2
    /\ \E c \in 0 .. cgrid.num_cells - 1 : cgrid.starts[c] = cgrid.starts[c + 1]
    /\ \E c \in 0 .. cgrid.num_cells - 1 : cgrid.starts[c] < cgrid.starts[c + 1]

\* C22: for an empty particle set build_compressed_grid returns without a
\* panic, in particular without an integer overflow in the dimensions, a
\* grid with num_cells = 0 and empty entries.
C22_EmptyGridSkipped ==
    (cgrid.st # "none" /\ NumParticles = 0) =>
        /\ cgrid.st = "ok"
        /\ cgrid.num_cells = 0
        /\ DOMAIN cgrid.entries = {}

\* The release build has returned the grid of an empty particle set: the
\* dimensions wrapped to 2 x 2.
C22_Witness ==
    /\ cgrid.st = "ok"
    /\ NumParticles = 0
    /\ cgrid.num_cells = 4
    /\ DOMAIN cgrid.starts = 0 .. 4

\* The debug build of the same call has panicked on the subtraction.
EmptyGridOverflows ==
    /\ NumParticles = 0
    /\ cgrid.st = "panic"
    /\ cgrid.why = "overflow"

\* What the code does for an empty particle set: a panic on the overflow, or
\* four empty cells and no entry.
EmptyGridOutcome ==
    (cgrid.st # "none" /\ NumParticles = 0) =>
        \/ cgrid.st = "panic" /\ cgrid.why = "overflow"
        \/ /\ cgrid.st = "ok"
           /\ cgrid.num_cells = 4
           /\ DOMAIN cgrid.entries = {}
           /\ \A c \in 0 .. 4 : cgrid.starts[c] = 0

\* C3: the hash grid of SPHState::build_grid has list lengths summing to the
\* particle count; every particle index is in exactly one list, once, and that
\* list is the one keyed by floor(pos / h); no key maps to an empty list.
C3_HashGridPartition ==
    hgrid.built =>
        /\ SumLens(hgrid.map, DOMAIN hgrid.map) = NumParticles
        /\ \A i \in DOMAIN particles :
              /\ FloorCell(particles[i]) \in DOMAIN hgrid.map
              /\ \A key \in DOMAIN hgrid.map :
                    Cardinality({k \in DOMAIN hgrid.map[key] : hgrid.map[key][k] = i})
                        = (IF key = FloorCell(particles[i]) THEN 1 ELSE 0)
        /\ \A key \in DOMAIN hgrid.map : hgrid.map[key] # <<>>

\* A hash grid with two keys, one of which lists two particles.
C3_Witness ==
    /\ hgrid.built
    /\ Cardinality(DOMAIN hgrid.map) >= 2
    /\ \E key \in DOMAIN hgrid.map : Len(hgrid.map[key]) = 2
    /\ \E i \in DOMAIN particles : particles[i][1] < 0

\* ------------------------------------------- parallel grid build: sizes

\* Threads per workgroup, cells per block.
WORKGROUP == 256

\* ((n + 255) / 256).max(1)
CeilGroups(n) == Max((n + (WORKGROUP - 1)) \div WORKGROUP, 1)

\* init_grid_build_buffers: counts_size_bytes / size_of::<u32>()
CountsBufferLen(num_cells) == Max(num_cells, 1)

\* init_starts_buffer_and_bg: size_bytes / size_of::<u32>()
StartsBufferLen(num_cells) == Max(num_cells, 1)

\* init_block_sums_and_bg: num_blocks, and the buffer's length in u32
NumBlocks(num_cells) == CeilGroups(num_cells)

BlockSumsBufferLen(num_blocks) == Max(num_blocks * 4, 4) \div 4

\* a cursor buffer sized by blocks instead of cells
CursorBufferLenByBlocks(num_cells) == NumBlocks(num_cells)

\* init_scatter_resources_and_bg: size_bytes / size_of::<u32>()
CursorBufferLen(num_cells) == Max(num_cells + 1, 1)

\* No workgroup clears the counts.
ClearCountsGroupsNone(num_cells) == 0

\* ClearCountsNode::run: groups
ClearCountsGroups(num_cells) == CeilGroups(num_cells)

\* n / 256: the partial workgroup is dropped
HistogramGroupsFloor(num_particles) == num_particles \div WORKGROUP

\* HistogramNode::run: n = num_particles.max(1); workgroups = (n + 255) / 256
HistogramGroups(num_particles) ==
    (Max(num_particles, 1) + (WORKGROUP - 1)) \div WORKGROUP

\* BlockScanNode::run: groups
BlockScanGroups(num_cells) == CeilGroups(num_cells)

\* BlockSumsScanNode::run: blocks = num_blocks.max(1); groups
BlockSumsScanGroups(num_blocks) == CeilGroups(Max(num_blocks, 1))

\* (num_cells / 256).max(1): the partial last block is dropped
AddBackGroupsFloor(num_cells) == Max(num_cells \div WORKGROUP, 1)

\* AddBackNode::run: groups
AddBackGroups(num_cells) == CeilGroups(num_cells)

\* ----------------------------------------- parallel grid build: kernels

\* The block (workgroup) that thread or cell c belongs to.
BlockOf(c) == c \div WORKGROUP

\* Whether a dispatch of `groups` workgroups has a thread for index c.
HasThread(groups, c) == c < groups * WORKGROUP

\* The cells with a non-zero count: the only ones a sum has to visit.
Support(cnt, num_cells) == {c \in DOMAIN cnt : c < num_cells /\ cnt[c] # 0}

\* block_scan: per block the exclusive local prefix sum of counts goes to
\* starts, the block's total to block_sums.
BlockScanKernel(cnt, st, bs, num_cells, groups) ==
    LET supp == Support(cnt, num_cells)
    IN [starts |->
            [c \in DOMAIN st |->
                IF c < num_cells /\ HasThread(groups, c)
                THEN SumOver(cnt, {d \in supp : BlockOf(d) = BlockOf(c) /\ d < c})
                ELSE st[c]],
        block_sums |->
            [b \in DOMAIN bs |->
                IF b < groups
                THEN SumOver(cnt, {d \in supp : BlockOf(d) = b})
                ELSE bs[b]]]

\* block_sums_scan: the same scan over block_sums, in place, one workgroup
\* per 256 blocks.
BlockSumsScanKernel(bs, num_blocks, groups) ==
    [b \in DOMAIN bs |->
        IF b < num_blocks /\ HasThread(groups, b)
        THEN SumOver(bs, {d \in DOMAIN bs :
                             /\ bs[d] # 0
                             /\ d < num_blocks /\ BlockOf(d) = BlockOf(b) /\ d < b})
        ELSE bs[b]]

\* add_back_block_offsets: the scanned offset of its block is added to every
\* starts entry.
AddBackKernel(st, bs, num_cells, groups) ==
    [c \in DOMAIN st |->
        IF c < num_cells /\ HasThread(groups, c) /\ BlockOf(c) \in DOMAIN bs
        THEN st[c] + bs[BlockOf(c)]
        ELSE st[c]]

\* ------------------------------------------ parallel grid build: passes

\* BlockScanNode::run followed by the block_scan dispatch.
BlockScanPass ==
    /\ phase = "block_scan"
    /\ g_num_cells # 0
    /\ LET r == BlockScanKernel(counts, starts, block_sums, g_num_cells,
                                BlockScanGroups(g_num_cells))
       IN /\ starts' = r.starts
          /\ block_sums' = r.block_sums
    /\ phase' = "block_sums_scan"
    /\ UNCHANGED <<restVars, gridVars, g_num_cells, counts, cursor, entries_buf, items>>

\* BlockSumsScanNode::run followed by the block_sums_scan dispatch.
BlockSumsScanPass ==
    /\ phase = "block_sums_scan"
    /\ LET num_blocks == NumBlocks(g_num_cells)
       IN block_sums' = BlockSumsScanKernel(block_sums, num_blocks,
                                            BlockSumsScanGroups(num_blocks))
    /\ phase' = "add_back"
    /\ UNCHANGED <<restVars, gridVars, g_num_cells, counts, starts, cursor, entries_buf,
                   items>>

\* AddBackNode::run followed by the add_back_block_offsets dispatch.
AddBackPass ==
    /\ phase = "add_back"
    /\ g_num_cells # 0
    /\ starts' = AddBackKernel(starts, block_sums, g_num_cells,
                               AddBackGroups(g_num_cells))
    /\ phase' = "scanned"
    /\ UNCHANGED <<restVars, gridVars, g_num_cells, counts, block_sums, cursor,
                   entries_buf, items>>

\* --------------------------------------- prefix-sum specification

\* Grid sizes around the block boundaries.
ScanCellChoices ==
    {n \in {b * WORKGROUP + d : b \in 0 .. MaxBlocks, d \in {-1, 0, 1}} : n >= 1}

\* The cells next to a block boundary, and the first and last cell.
ProbeCells(num_cells) ==
    {c \in {0, num_cells - 1}
           \cup {b * WORKGROUP + d : b \in 1 .. MaxBlocks, d \in {-1, 0}} :
        0 <= c /\ c < num_cells}

\* The histogram of the cell ids in array ids, over len cells.
HistogramOf(ids, len) == [c \in 0 .. len - 1 |-> Cardinality(IndicesOf(ids, c))]

\* The buffers as the histogram pass leaves them: counts of a few particles
\* in cells around the block boundaries, a starts buffer still holding what
\* an earlier frame left, a fresh block_sums buffer.
ScanInit ==
    /\ particles = <<>>
    /\ cgrid = NoGrid
    /\ hgrid = NoHashGrid
    /\ \E nc \in ScanCellChoices, k \in 0 .. MaxParticles, junk \in {0, Stale} :
          \E ids \in [0 .. k - 1 -> ProbeCells(nc)] :
             /\ g_num_cells = nc
             /\ counts = HistogramOf(ids, CountsBufferLen(nc))
             /\ starts = ArrFill(StartsBufferLen(nc), junk)
             /\ block_sums = ArrFill(BlockSumsBufferLen(NumBlocks(nc)), 0)
    /\ cursor = <<>>
    /\ entries_buf = <<>>
    /\ phase = "block_scan"
    /\ items = <<>>
    /\ RestIdle

ScanNext == BlockScanPass \/ BlockSumsScanPass \/ AddBackPass

ScanSpec == ScanInit /\ [][ScanNext]_vars

WideParticles == 3

\* Grid sizes of 2, 256, 257 and 258 blocks: block_sums fills one workgroup
\* of the block-sums scan, or needs a second one.
WideCellChoices ==
    {WORKGROUP + 1, WORKGROUP * WORKGROUP, WORKGROUP * WORKGROUP + 1,
     WORKGROUP * WORKGROUP + WORKGROUP + 1}

\* The first block, the last block of the first workgroup, the first of
\* the second, and the last block.
WideProbeBlocks(num_blocks) ==
    {b \in {0, WORKGROUP - 1, WORKGROUP, num_blocks - 1} : b < num_blocks}

\* block_sums as the block scan leaves it: the number of particles counted
\* in the cells of each block. The scan is in place, so prev_grid keeps the
\* block totals it was given.
WideScanInit ==
    /\ particles = <<>>
    /\ cgrid = NoGrid
    /\ hgrid = NoHashGrid
    /\ \E nc \in WideCellChoices, k \in 0 .. WideParticles :
          \E ids \in [0 .. k - 1 -> WideProbeBlocks(NumBlocks(nc))] :
             /\ g_num_cells = nc
             /\ block_sums = HistogramOf(ids, BlockSumsBufferLen(NumBlocks(nc)))
    /\ counts = <<>>
    /\ starts = <<>>
    /\ cursor = <<>>
    /\ entries_buf = <<>>
    /\ phase = "block_sums_scan"
    /\ items = <<>>
    /\ prev_grid = [built |-> TRUE, num_cells |-> g_num_cells,
                    block_sums |-> block_sums]
    /\ FrameIdle
    /\ DemoIdle
    /\ ext_allow_copy = TRUE
    /\ StepIdle
    /\ EngIdle
    /\ RbIdle

WideScanNext == BlockSumsScanPass

WideScanSpec == WideScanInit /\ [][WideScanNext]_vars

\* The particles counted in the blocks before block b, from the block
\* totals the scan was given.
CountedBefore(b) ==
    SumOver(prev_grid.block_sums,
            {d \in DOMAIN prev_grid.block_sums :
                d < b /\ prev_grid.block_sums[d] # 0})

\* C24: the block-sums scan leaves in block_sums the exclusive prefix sum of
\* the block totals, for every number of blocks, more than 256 included.
C24_BlockSumsPrefix ==
    (phase = "add_back" /\ prev_grid.built) =>
        \A b \in 0 .. NumBlocks(g_num_cells) - 1 :
           block_sums[b] = CountedBefore(b)

\* The block-sums scan has run with two workgroups over more than 256
\* blocks, and a particle is counted in one of the first 256.
C24_Witness ==
    /\ phase = "add_back"
    /\ prev_grid.built
    /\ NumBlocks(g_num_cells) > WORKGROUP
    /\ BlockSumsScanGroups(NumBlocks(g_num_cells)) = 2
    /\ CountedBefore(WORKGROUP) > 0

\* Up to 256 blocks the scan is the prefix sum: one workgroup scans all of
\* block_sums.
OneGroupPrefix ==
    (/\ phase = "add_back"
     /\ prev_grid.built
     /\ NumBlocks(g_num_cells) <= WORKGROUP) =>
        \A b \in 0 .. NumBlocks(g_num_cells) - 1 :
           block_sums[b] = CountedBefore(b)

\* Above 256 blocks every workgroup scans its own 256 blocks: a block of
\* the second workgroup gets the total of the blocks from block 256 on.
SecondGroupLocal ==
    (/\ phase = "add_back"
     /\ prev_grid.built
     /\ NumBlocks(g_num_cells) > WORKGROUP) =>
        \A b \in WORKGROUP .. NumBlocks(g_num_cells) - 1 :
           block_sums[b] = CountedBefore(b) - CountedBefore(WORKGROUP)

\* ------------------------------- parallel grid build: histogram, scatter

\* The cell id a work item computes from its particle's position and the
\* grid parameters: floor((pos - min_world) / cell_size), row-major.
GpuCellId(pos, params) ==
    LET cx == (pos[1] - params.min_world[1]) \div params.cell_size
        cy == (pos[2] - params.min_world[2]) \div params.cell_size
    IN cx + cy * params.dims[1]

\* GridParams as build_compressed_grid fills it.
GridParamsOf(g) ==
    [min_world |-> <<g.min_c[1] * H, g.min_c[2] * H>>,
     cell_size |-> H,
     dims |-> <<g.nx, g.ny>>]

\* The work items of a dispatch over the particles: one thread per global
\* id, those at or past the particle count return at once.
WorkItems(groups, n) ==
    [i \in {j \in 0 .. n - 1 : HasThread(groups, j)} |->
        [pc |-> "todo", slot |-> 0]]

AllDone(its) == \A i \in DOMAIN its : its[i].pc = "done"

\* Where an access to index id of a buffer of len words lands: in range it
\* is the word itself; out of range the device either clamps the index into
\* the buffer or drops the access (-1).
BufferIndex(id, len, oob) ==
    IF 0 <= id /\ id < len THEN id
    ELSE IF oob = "clamp" /\ len > 0 THEN len - 1
    ELSE -1

OobModes == {"clamp", "drop"}

\* The outcomes to consider for an access: both when it is out of range,
\* one when it is in range, where the mode makes no difference.
OobChoices(id, len) ==
    IF 0 <= id /\ id < len THEN {"clamp"} ELSE OobModes

\* The scatter dispatch: one work item per particle, 256 per workgroup.
ScatterGroups(num_particles) ==
    (Max(num_particles, 1) + (WORKGROUP - 1)) \div WORKGROUP

\* ClearCountsNode::run and the clear_counts dispatch.
ClearCountsPass ==
    /\ phase = "clear_counts"
    /\ counts' = IF g_num_cells = 0 THEN counts
                 ELSE [c \in DOMAIN counts |->
                          IF c < g_num_cells
                             /\ HasThread(ClearCountsGroups(g_num_cells), c)
                          THEN 0 ELSE counts[c]]
    /\ phase' = "histogram_dispatch"
    /\ UNCHANGED <<restVars, gridVars, g_num_cells, starts, block_sums, cursor,
                   entries_buf, items>>

\* HistogramNode::run: the dispatch of the histogram work items.
BeginHistogram ==
    /\ phase = "histogram_dispatch"
    /\ items' = WorkItems(HistogramGroups(ArrLen(particles)), ArrLen(particles))
    /\ phase' = "histogram"
    /\ UNCHANGED <<restVars, gridVars, g_num_cells, counts, starts, block_sums, cursor,
                   entries_buf>>

\* One histogram work item: atomicAdd(counts[cell_id], 1).
HistogramItem(i) ==
    /\ phase = "histogram"
    /\ i \in DOMAIN items
    /\ items[i].pc = "todo"
    /\ \E oob \in OobChoices(GpuCellId(particles[i], GridParamsOf(cgrid)),
                              ArrLen(counts)) :
          LET id == GpuCellId(particles[i], GridParamsOf(cgrid))
              w == BufferIndex(id, ArrLen(counts), oob)
          IN counts' = IF w = -1 THEN counts
                       ELSE [counts EXCEPT ![w] = @ + 1]
    /\ items' = [items EXCEPT ![i].pc = "done"]
    /\ UNCHANGED <<restVars, gridVars, g_num_cells, starts, block_sums, cursor,
                   entries_buf, phase>>

\* The end of the histogram pass: every work item has finished.
EndHistogram ==
    /\ phase = "histogram"
    /\ AllDone(items)
    /\ phase' = "block_scan"
    /\ items' = <<>>
    /\ UNCHANGED <<restVars, gridVars, g_num_cells, counts, starts, block_sums, cursor,
                   entries_buf>>

\* The clear-cursor pass: the clear kernel bound to the cursor buffer.
ClearCursorPass ==
    /\ phase = "scanned"
    /\ cursor' = [c \in DOMAIN cursor |->
                     IF c < g_num_cells
                        /\ HasThread(CeilGroups(g_num_cells), c)
                     THEN 0 ELSE cursor[c]]
    /\ phase' = "scatter_dispatch"
    /\ UNCHANGED <<restVars, gridVars, g_num_cells, counts, starts, block_sums,
                   entries_buf, items>>

\* The dispatch of the scatter work items, one per particle.
BeginScatter ==
    /\ phase = "scatter_dispatch"
    /\ items' = WorkItems(ScatterGroups(ArrLen(particles)), ArrLen(particles))
    /\ phase' = "scatter"
    /\ UNCHANGED <<restVars, gridVars, g_num_cells, counts, starts, block_sums, cursor,
                   entries_buf>>

\* A scatter work item claims its slot: one atomic fetch-and-increment of
\* its cell's cursor, offset by the cell's start.
ScatterClaim(i) ==
    /\ phase = "scatter"
    /\ i \in DOMAIN items
    /\ items[i].pc = "todo"
    /\ \E oob \in OobChoices(GpuCellId(particles[i], GridParamsOf(cgrid)),
                              Min(ArrLen(cursor), ArrLen(starts))) :
          LET id == GpuCellId(particles[i], GridParamsOf(cgrid))
              w == BufferIndex(id, ArrLen(cursor), oob)
              s == BufferIndex(id, ArrLen(starts), oob)
              k == IF w = -1 THEN 0 ELSE cursor[w]
              base == IF s = -1 THEN 0 ELSE starts[s]
          IN /\ cursor' = IF w = -1 THEN cursor
                          ELSE [cursor EXCEPT ![w] = @ + 1]
             /\ items' = [items EXCEPT ![i] = [pc |-> "claimed",
                                               slot |-> base + k]]
    /\ UNCHANGED <<restVars, gridVars, g_num_cells, counts, starts, block_sums,
                   entries_buf, phase>>

\* A scatter work item writes its particle index into the slot it claimed.
ScatterWrite(i) ==
    /\ phase = "scatter"
    /\ i \in DOMAIN items
    /\ items[i].pc = "claimed"
    /\ \E oob \in OobChoices(items[i].slot, ArrLen(entries_buf)) :
          LET w == BufferIndex(items[i].slot, ArrLen(entries_buf), oob)
          IN entries_buf' = IF w = -1 THEN entries_buf
                            ELSE [entries_buf EXCEPT ![w] = i]
    /\ items' = [items EXCEPT ![i].pc = "done"]
    /\ UNCHANGED <<restVars, gridVars, g_num_cells, counts, starts, block_sums, cursor,
                   phase>>

\* The end of the scatter pass.
EndScatter ==
    /\ phase = "scatter"
    /\ AllDone(items)
    /\ phase' = "done"
    /\ UNCHANGED <<restVars, gridVars, g_num_cells, counts, starts, block_sums, cursor,
                   entries_buf, items>>

\* --------------------------------- parallel grid build specification

GpuParticles == 3

\* One position in each cell of columns -1 and 0, rows 0 and 1.
GpuPositions ==
    {<<cx * H, cy * H + 1>> : cx \in -1 .. 0, cy \in 0 .. 1}

\* A frame's buffers before the grid passes: the host grid of the particles
\* uploaded (GridBuffers::update), a fresh counts and block_sums buffer, the
\* starts and cursor buffers possibly kept from the frame before, the
\* entries buffer holding the host grid's entries.
GpuGridInit ==
    /\ \E n \in 1 .. GpuParticles : particles \in [0 .. n - 1 -> GpuPositions]
    /\ cgrid = build_compressed_grid(particles, "release")
    /\ hgrid = NoHashGrid
    /\ g_num_cells = cgrid.num_cells
    /\ counts = ArrFill(CountsBufferLen(g_num_cells), 0)
    /\ \E junk \in {0, Stale} :
          /\ starts = ArrFill(StartsBufferLen(g_num_cells), junk)
          /\ cursor = ArrFill(CursorBufferLen(g_num_cells), junk)
    /\ block_sums = ArrFill(BlockSumsBufferLen(NumBlocks(g_num_cells)), 0)
    /\ entries_buf = cgrid.entries
    /\ phase = "clear_counts"
    /\ items = <<>>
    /\ RestIdle

GpuGridNext ==
    \/ ClearCountsPass
    \/ BeginHistogram
    \/ \E i \in 0 .. GpuParticles - 1 : HistogramItem(i)
    \/ EndHistogram
    \/ BlockScanPass
    \/ BlockSumsScanPass
    \/ AddBackPass
    \/ ClearCursorPass
    \/ BeginScatter
    \/ \E i \in 0 .. GpuParticles - 1 : ScatterClaim(i)
    \/ \E i \in 0 .. GpuParticles - 1 : ScatterWrite(i)
    \/ EndScatter

GpuGridSpec == GpuGridInit /\ [][GpuGridNext]_vars

\* The particles of the cell with id c of the host-built grid.
ParticlesOfCell(c) ==
    {i \in DOMAIN particles : FloorCell(particles[i]) = CoordOfId(cgrid, c)}

\* The id of the cell of particle i.
CellIdOf(i) ==
    CHOOSE c \in 0 .. g_num_cells - 1 : i \in ParticlesOfCell(c)

\* The end of cell c's range in the starts buffer, which holds one word per
\* cell: the next cell's start, the particle count for the last cell.
RangeEnd(c) == IF c + 1 < g_num_cells THEN starts[c + 1] ELSE NumParticles

HistogramOver == phase \notin {"clear_counts", "histogram_dispatch", "histogram"}

\* C25: the starts buffer of the parallel builder has room for
\* num_cells + 1 entries, the sentinel starts[num_cells] included, and the
\* cursor buffer for at least num_cells entries.
C25_SentinelRoom ==
    phase # "idle" =>
        /\ ArrLen(starts) >= g_num_cells + 1
        /\ ArrLen(cursor) >= g_num_cells

\* The scan has filled a starts buffer of a grid of more than one cell, and
\* the index of the sentinel is outside that buffer.
C25_Witness ==
    /\ phase = "scanned"
    /\ g_num_cells >= 2
    /\ g_num_cells \notin DOMAIN starts
    /\ g_num_cells - 1 \in DOMAIN starts

\* What the code allocates: num_cells words of starts, num_cells + 1 words
\* of cursor.
BuffersAllocated ==
    phase # "idle" =>
        /\ DOMAIN starts = 0 .. g_num_cells - 1
        /\ DOMAIN cursor = 0 .. g_num_cells

\* C5: after the clear-counts pass, whatever the interleaving of the
\* per-particle work items that each atomically increment counts[cell_id],
\* the counts the histogram pass leaves are, for every cell, the number of
\* particles in that cell, and they sum to the particle count; while the
\* pass runs the counts sum to the number of items that have finished.
C5_HistogramCounts ==
    /\ phase = "histogram" =>
          SumOver(counts, 0 .. g_num_cells - 1)
              = Cardinality({i \in DOMAIN items : items[i].pc = "done"})
    /\ HistogramOver =>
          /\ \A c \in 0 .. g_num_cells - 1 :
                counts[c] = Cardinality(ParticlesOfCell(c))
          /\ SumOver(counts, 0 .. g_num_cells - 1) = NumParticles

\* The histogram is over with two particles counted in one cell and an
\* empty cell next to it.
C5_Witness ==
    /\ phase = "block_scan"
    /\ \E c \in DOMAIN counts : counts[c] >= 2
    /\ \E c \in DOMAIN counts : counts[c] = 0

Claimed == {i \in DOMAIN items : items[i].pc \in {"claimed", "done"}}

\* C4: in the scatter pass, whatever the interleaving of the work items that
\* each claim a slot by one atomic fetch-and-increment of their cell's
\* cursor: every claimed slot lies in [0, N) and in its particle's cell range
\* [starts[c], starts[c+1]), no two particles claim or write the same slot,
\* and when the pass ends every slot has been claimed exactly once and
\* entries is a permutation of 0..N-1 grouped by cell.
C4_ScatterSlots ==
    /\ phase \in {"scatter", "done"} =>
          /\ \A i \in Claimed :
                /\ items[i].slot \in 0 .. NumParticles - 1
                /\ starts[CellIdOf(i)] <= items[i].slot
                /\ items[i].slot < RangeEnd(CellIdOf(i))
          /\ \A i, j \in Claimed : i # j => items[i].slot # items[j].slot
          /\ \A i \in DOMAIN items :
                items[i].pc = "done" => entries_buf[items[i].slot] = i
    /\ phase = "done" =>
          /\ DOMAIN entries_buf = 0 .. NumParticles - 1
          /\ \A s \in 0 .. NumParticles - 1 :
                Cardinality({i \in DOMAIN items : items[i].slot = s}) = 1
          /\ \A i \in 0 .. NumParticles - 1 :
                Cardinality(IndicesOf(entries_buf, i)) = 1
          /\ \A c \in 0 .. g_num_cells - 1 :
                {entries_buf[s] : s \in starts[c] .. RangeEnd(c) - 1}
                    = ParticlesOfCell(c)

\* The pass has ended after two particles of one cell claimed slots in the
\* order opposite to their indices, with a particle in another cell.
C4_Witness ==
    /\ phase = "done"
    /\ \E i, j \in DOMAIN items :
          /\ i < j
          /\ CellIdOf(i) = CellIdOf(j)
          /\ items[j].slot < items[i].slot
    /\ \E i, j \in DOMAIN items : CellIdOf(i) # CellIdOf(j)

\* ------------------------------------------------ a render frame: graph

Range(seq) == {seq[k] : k \in DOMAIN seq}

\* The four stages DensityNode dispatches, in the order it dispatches them.
Stages == <<"density", "pressure", "forces", "integrate">>

\* The grid passes, each named as its pipeline.
GridPasses ==
    <<"clear_counts", "histogram", "block_scan", "block_sums_scan", "add_back">>

Pipelines == Range(Stages) \cup Range(GridPasses)

\* add_density_node_to_graph
DensityEdges == {<<"Density", "CameraDriver">>}

\* add_clear_counts_node_to_graph
ClearCountsEdges == {<<"ClearCounts", "Density">>}

\* add_histogram_node_to_graph without its edge from ClearCounts
HistogramEdgesNoClear == {<<"Histogram", "Density">>}

\* add_histogram_node_to_graph
HistogramEdges == {<<"ClearCounts", "Histogram">>, <<"Histogram", "Density">>}

\* add_block_scan_node_to_graph
BlockScanEdges == {<<"ClearCounts", "BlockScan">>, <<"Histogram", "BlockScan">>}

\* add_block_sums_scan_node_to_graph
BlockSumsScanEdges ==
    {<<"ClearCounts", "BlockSumsScan">>, <<"Histogram", "BlockSumsScan">>,
     <<"BlockScan", "BlockSumsScan">>, <<"BlockSumsScan", "Density">>}

\* add_add_back_node_to_graph
AddBackEdges ==
    {<<"ClearCounts", "AddBack">>, <<"Histogram", "AddBack">>,
     <<"BlockScan", "AddBack">>, <<"BlockSumsScan", "AddBack">>,
     <<"AddBack", "Density">>}

\* The render graph GPUSPHPlugin::build puts together.
Edges ==
    DensityEdges \cup ClearCountsEdges \cup HistogramEdges \cup BlockScanEdges
        \cup BlockSumsScanEdges \cup AddBackEdges

Nodes == {e[1] : e \in Edges} \cup {e[2] : e \in Edges}

\* The pipeline a grid node dispatches.
PipelineOf(node) ==
    CASE node = "ClearCounts" -> "clear_counts"
      [] node = "Histogram" -> "histogram"
      [] node = "BlockScan" -> "block_scan"
      [] node = "BlockSumsScan" -> "block_sums_scan"
      [] node = "AddBack" -> "add_back"

\* The grid nodes that return early when num_cells is 0.
ChecksNumCells == {"ClearCounts", "BlockScan", "AddBack"}

\* prepare_density_pipeline and its three siblings: the first call queues
\* the pipeline and returns; a later call inserts the pipeline resource once
\* the cache has compiled it.
PrepareStagePipeline(st) ==
    IF st = "none" THEN "queued"
    ELSE IF st = "compiled" THEN "ready"
    ELSE st

\* prepare_clear_counts_pipeline and its siblings: the first call queues the
\* pipeline and inserts the resource holding its id; later calls only log.
PrepareGridPipeline(st) == IF st = "none" THEN "queued" ELSE st

\* The grid nodes that return early without the block_sums buffer and its
\* bind group.
NeedsBlockSums == {"BlockSumsScan"}

\* init_block_sums_and_bg and init_block_sums_scan_bg: the block_sums buffer
\* of the frame; with num_cells = 0 they return and the render world keeps
\* what it has.
PrepareBlockSums(bs, num_cells) ==
    IF num_cells = 0 THEN bs
    ELSE ArrFill(BlockSumsBufferLen(NumBlocks(num_cells)), 0)

\* ClearCountsNode::run and the other grid nodes: what the node encodes.
\* sums tells whether the render world has a block_sums buffer.
GridNodeDispatches(node, ps, num_cells, sums) ==
    IF ps[PipelineOf(node)] = "none" THEN <<>>
    ELSE IF node \in NeedsBlockSums /\ ~sums THEN <<>>
    ELSE IF node \in ChecksNumCells /\ num_cells = 0 THEN <<>>
    ELSE IF ps[PipelineOf(node)] # "compiled" THEN <<>>
    ELSE <<PipelineOf(node)>>

\* The stage is dispatched if its pipeline resource exists.
StageIfReady(ps, stage) == IF ps[stage] = "ready" THEN <<stage>> ELSE <<>>

\* DensityNode::run without the test of ExtractedAllowCopy: the copy is
\* always encoded.
DensityNodeAlwaysCopies(ps, copy) ==
    IF ps["density"] # "ready" THEN <<>>
    ELSE <<"density">>
         \o StageIfReady(ps, "pressure")
         \o StageIfReady(ps, "forces")
         \o StageIfReady(ps, "integrate")
         \o <<"copy">>

\* DensityNode::run: what the node encodes.
DensityNodeDispatches(ps, copy) ==
    IF ps["density"] # "ready" THEN <<>>
    ELSE <<"density">>
         \o StageIfReady(ps, "pressure")
         \o StageIfReady(ps, "forces")
         \o StageIfReady(ps, "integrate")
         \o (IF copy THEN <<"copy">> ELSE <<>>)

NodeDispatches(node, ps, num_cells, copy, sums) ==
    IF node = "Density" THEN DensityNodeDispatches(ps, copy)
    ELSE IF node = "CameraDriver" THEN <<>>
    ELSE GridNodeDispatches(node, ps, num_cells, sums)

\* The systems of the Prepare set.
PrepareSet ==
    /\ fphase = "prepare"
    /\ pipes' = [p \in Pipelines |->
                    IF p \in Range(Stages) THEN PrepareStagePipeline(pipes[p])
                    ELSE PrepareGridPipeline(pipes[p])]
    /\ block_sums' = PrepareBlockSums(block_sums, g_num_cells)
    /\ fphase' = "queue"
    /\ UNCHANGED <<otherVars, gridVars, g_num_cells, counts, starts, cursor,
                   entries_buf, phase, items, ran, dispatched, demoVars,
                   ext_allow_copy, stepVars>>

\* The pipeline cache between Prepare and the graph: any of the queued
\* pipelines may have finished compiling.
ProcessPipelineQueue ==
    /\ fphase = "queue"
    /\ \E done \in SUBSET {p \in Pipelines : pipes[p] = "queued"} :
          pipes' = [p \in Pipelines |->
                       IF p \in done THEN "compiled" ELSE pipes[p]]
    /\ fphase' = "graph"
    /\ UNCHANGED <<otherVars, gridVars, gpuVars, ran, dispatched, demoVars,
                   ext_allow_copy, stepVars>>

\* The graph runner runs a node all of whose predecessors have run.
RunNode(node) ==
    /\ fphase = "graph"
    /\ node \notin Range(ran)
    /\ \A e \in Edges : e[2] = node => e[1] \in Range(ran)
    /\ ran' = Append(ran, node)
    /\ dispatched' =
          dispatched \o NodeDispatches(node, pipes, g_num_cells, ext_allow_copy,
                                       block_sums # <<>>)
    /\ UNCHANGED <<otherVars, gridVars, gpuVars, fphase, pipes, demoVars, ext_allow_copy,
                   stepVars>>

\* The num_cells a frame's GridBuildParams may hold: ExtractedGrid's
\* num_cells as u32. build_compressed_grid returns one cell at least; the
\* cast leaves 0 of a cell count that is a multiple of 2^32.
FrameCells == {0, 1}

\* The graph has run; the next frame begins with the grid extracted for it.
EndFrame ==
    /\ fphase = "graph"
    /\ Range(ran) = Nodes
    /\ ran' = <<>>
    /\ dispatched' = <<>>
    /\ fphase' = "prepare"
    /\ g_num_cells' \in FrameCells
    /\ UNCHANGED <<otherVars, gridVars, counts, starts, block_sums, cursor,
                   entries_buf, phase, items, pipes, demoVars, ext_allow_copy,
                   stepVars>>

\* The first frame of the render app: no pipeline queued yet, a grid of the
\* host's particles extracted.
FrameInit ==
    /\ particles = <<>>
    /\ cgrid = NoGrid
    /\ hgrid = NoHashGrid
    /\ g_num_cells \in FrameCells
    /\ counts = <<>>
    /\ starts = <<>>
    /\ block_sums = <<>>
    /\ cursor = <<>>
    /\ entries_buf = <<>>
    /\ phase = "idle"
    /\ items = <<>>
    /\ fphase = "prepare"
    /\ pipes = [p \in Pipelines |-> "none"]
    /\ ran = <<>>
    /\ dispatched = <<>>
    /\ DemoIdle
    /\ ext_allow_copy \in BOOLEAN
    /\ StepIdle
    /\ OtherIdle

FrameNext ==
    \/ PrepareSet
    \/ ProcessPipelineQueue
    \/ \E node \in Nodes : RunNode(node)
    \/ EndFrame

FrameSpec == FrameInit /\ [][FrameNext]_vars

\* The position of x in seq.
PosIn(seq, x) == CHOOSE k \in DOMAIN seq : seq[k] = x

\* The order the claim names for the nodes, and for the dispatches.
NodeOrder ==
    <<"ClearCounts", "Histogram", "BlockScan", "BlockSumsScan", "AddBack",
      "Density">>

DispatchOrder == GridPasses \o Stages \o <<"copy">>

\* C7: in every order of a frame that the render-graph edges admit, the grid
\* nodes run in the order clear counts, histogram, block scan, block-sums
\* scan, add-back, all of them before the density node: a node of that list
\* has run only when all the nodes before it in the list have run before it,
\* and the dispatches of the frame are encoded in that same order.
C7_GridPassOrder ==
    /\ \A i, j \in DOMAIN NodeOrder :
          i < j /\ NodeOrder[j] \in Range(ran) =>
             /\ NodeOrder[i] \in Range(ran)
             /\ PosIn(ran, NodeOrder[i]) < PosIn(ran, NodeOrder[j])
    /\ \A a, b \in DOMAIN dispatched :
          a < b => PosIn(DispatchOrder, dispatched[a])
                      < PosIn(DispatchOrder, dispatched[b])

\* A frame in which every node has run and every grid pass and the density
\* stage have been dispatched.
C7_Witness ==
    /\ Range(ran) = Nodes
    /\ Range(GridPasses) \subseteq Range(dispatched)
    /\ "density" \in Range(dispatched)

\* C8: in every frame in which DensityNode dispatches the integrate stage it
\* has dispatched density, pressure and forces before it in that frame, in
\* that order; no stage is dispatched in a frame in which an earlier stage
\* was skipped.
C8_StagesInOrder ==
    \A i, j \in DOMAIN Stages :
        i < j /\ Stages[j] \in Range(dispatched) =>
           /\ Stages[i] \in Range(dispatched)
           /\ PosIn(dispatched, Stages[i]) < PosIn(dispatched, Stages[j])

\* A frame in which integrate was dispatched although pressure was skipped.
C8_Witness ==
    /\ "integrate" \in Range(dispatched)
    /\ "pressure" \notin Range(dispatched)

CheckedPassesSkipped ==
    (fphase = "graph" /\ g_num_cells = 0) =>
        Range(dispatched) \cap {"clear_counts", "block_scan", "add_back"} = {}

\* Without a block_sums buffer from an earlier frame the block-sums scan is
\* not dispatched.
NoSumsNoScan ==
    (fphase = "graph" /\ block_sums = <<>>) =>
        "block_sums_scan" \notin Range(dispatched)

\* ------------------------------------------------------- SPHState::step

StepParticles == 3
MaxTicks == 2

\* The body of step with the force stage called first.
StepOrderForceFirst ==
    <<"accel_field_calc", "density_pressure_calc", "integrate">>

\* The body of step: the three calls in program order.
StepOrder == <<"density_pressure_calc", "accel_field_calc", "integrate">>

\* Where control goes when the k-th call of step's body returns.
AfterCall(k) ==
    IF k < Len(StepOrder) THEN <<"call", StepOrder[k + 1]>> ELSE <<"idle">>

\* The index of function f in step's body.
CallIndex(f) == CHOOSE k \in DOMAIN StepOrder : StepOrder[k] = f

\* `for i in 0..n`: the next iteration, or the statement after the loop.
LoopNext(i, n, stay, leave) ==
    IF i + 1 < n THEN [pc |-> stay, i |-> i + 1] ELSE [pc |-> leave, i |-> 0]

\* The ticks that wrote field f of the particles: what a read of that field
\* of all particles sees.
Seen(ps, f) == {ps[j][f] : j \in DOMAIN ps}

\* Particle::new: no stage has written any field.
NewParticle ==
    [rho |-> 0, p |-> 0, acc |-> 0, vel |-> 0, pos |-> 0,
     acc_seen |-> {}, bounded |-> 0, bnd_pos |-> 0, clamped |-> 0]

\* vec![0.0; n]
FreshVec(n) == [i \in 0 .. n - 1 |-> [t |-> 0, pos_seen |-> {}, rho_seen |-> {},
                                      p_seen |-> {}]]

\* step(dt) is called.
StepCall ==
    /\ step_pc = <<"idle">>
    /\ tick < MaxTicks
    /\ tick' = tick + 1
    /\ step_pc' = <<"call", StepOrder[1]>>
    /\ UNCHANGED <<otherVars, gridVars, gpuVars, frameVars, demoVars, ext_allow_copy,
                   step_i, cpu, rho_vec, acc_vec>>

\* density_pressure_calc up to its first loop: rho_vec is allocated.
EnterDensityPressureCalc ==
    /\ step_pc = <<"call", "density_pressure_calc">>
    /\ rho_vec' = FreshVec(ArrLen(cpu))
    /\ step_pc' = <<"rho_calc">>
    /\ step_i' = 0
    /\ UNCHANGED <<otherVars, gridVars, gpuVars, frameVars, demoVars, ext_allow_copy,
                   tick, cpu, acc_vec>>

\* One iteration of the first loop: rho_vec[i] from the positions.
RhoCalc ==
    /\ step_pc = <<"rho_calc">>
    /\ rho_vec' = [rho_vec EXCEPT ![step_i] =
                      [@ EXCEPT !.t = tick, !.pos_seen = Seen(cpu, "pos")]]
    /\ LET nx == LoopNext(step_i, ArrLen(cpu), <<"rho_calc">>, <<"rho_write">>)
       IN step_pc' = nx.pc /\ step_i' = nx.i
    /\ UNCHANGED <<otherVars, gridVars, gpuVars, frameVars, demoVars, ext_allow_copy,
                   tick, cpu, acc_vec>>

\* One iteration of the second loop: rho and p of particle i are written.
RhoWrite ==
    /\ step_pc = <<"rho_write">>
    /\ cpu' = [cpu EXCEPT ![step_i].rho = rho_vec[step_i].t,
                          ![step_i].p = rho_vec[step_i].t]
    /\ LET nx == LoopNext(step_i, ArrLen(cpu), <<"rho_write">>,
                          AfterCall(CallIndex("density_pressure_calc")))
       IN step_pc' = nx.pc /\ step_i' = nx.i
    /\ UNCHANGED <<otherVars, gridVars, gpuVars, frameVars, demoVars, ext_allow_copy,
                   tick, rho_vec, acc_vec>>

\* accel_field_calc up to its first loop: acc_vec is allocated.
EnterAccelFieldCalc ==
    /\ step_pc = <<"call", "accel_field_calc">>
    /\ acc_vec' = FreshVec(ArrLen(cpu))
    /\ step_pc' = <<"acc_calc">>
    /\ step_i' = 0
    /\ UNCHANGED <<otherVars, gridVars, gpuVars, frameVars, demoVars, ext_allow_copy,
                   tick, cpu, rho_vec>>

\* One iteration of the first loop: acc_vec[i] from pos, vel, rho and p.
AccCalc ==
    /\ step_pc = <<"acc_calc">>
    /\ acc_vec' = [acc_vec EXCEPT ![step_i] =
                      [t |-> tick, pos_seen |-> Seen(cpu, "pos"),
                       rho_seen |-> Seen(cpu, "rho"),
                       p_seen |-> Seen(cpu, "p")]]
    /\ LET nx == LoopNext(step_i, ArrLen(cpu), <<"acc_calc">>, <<"acc_write">>)
       IN step_pc' = nx.pc /\ step_i' = nx.i
    /\ UNCHANGED <<otherVars, gridVars, gpuVars, frameVars, demoVars, ext_allow_copy,
                   tick, cpu, rho_vec>>

\* One iteration of the second loop: acc of particle i is written.
AccWrite ==
    /\ step_pc = <<"acc_write">>
    /\ cpu' = [cpu EXCEPT ![step_i].acc = acc_vec[step_i].t]
    /\ LET nx == LoopNext(step_i, ArrLen(cpu), <<"acc_write">>,
                          AfterCall(CallIndex("accel_field_calc")))
       IN step_pc' = nx.pc /\ step_i' = nx.i
    /\ UNCHANGED <<otherVars, gridVars, gpuVars, frameVars, demoVars, ext_allow_copy,
                   tick, rho_vec, acc_vec>>

\* integrate is entered.
EnterIntegrate ==
    /\ step_pc = <<"call", "integrate">>
    /\ step_pc' = <<"integrate">>
    /\ step_i' = 0
    /\ UNCHANGED <<otherVars, gridVars, gpuVars, frameVars, demoVars, ext_allow_copy,
                   tick, cpu, rho_vec, acc_vec>>

\* The loop body of integrate up to the boundary test: vel += acc * dt,
\* pos += vel * dt.
Integrate ==
    /\ step_pc = <<"integrate">>
    /\ cpu' = [cpu EXCEPT ![step_i].vel = tick,
                          ![step_i].pos = tick,
                          ![step_i].acc_seen = Seen(cpu, "acc")]
    /\ step_pc' = <<"boundary">>
    /\ UNCHANGED <<otherVars, gridVars, gpuVars, frameVars, demoVars, ext_allow_copy,
                   tick, step_i, rho_vec, acc_vec>>

\* The rest of the loop body: if pos.y < 0 the particle is put on the floor
\* and its vel.y is scaled.
Boundary ==
    /\ step_pc = <<"boundary">>
    /\ \E below \in BOOLEAN :
          cpu' = [cpu EXCEPT ![step_i].bounded = tick,
                             ![step_i].bnd_pos = cpu[step_i].pos,
                             ![step_i].clamped = IF below THEN tick ELSE @]
    /\ LET nx == LoopNext(step_i, ArrLen(cpu), <<"integrate">>,
                          AfterCall(CallIndex("integrate")))
       IN step_pc' = nx.pc /\ step_i' = nx.i
    /\ UNCHANGED <<otherVars, gridVars, gpuVars, frameVars, demoVars, ext_allow_copy,
                   tick, rho_vec, acc_vec>>

\* An engine with some particles, before the first step.
StepInit ==
    /\ particles = <<>>
    /\ cgrid = NoGrid
    /\ hgrid = NoHashGrid
    /\ GpuIdle
    /\ FrameIdle
    /\ DemoIdle
    /\ ext_allow_copy = TRUE
    /\ tick = 0
    /\ step_pc = <<"idle">>
    /\ step_i = 0
    /\ \E n \in 1 .. StepParticles : cpu = ArrFill(n, NewParticle)
    /\ rho_vec = <<>>
    /\ acc_vec = <<>>
    /\ OtherIdle

StepNext ==
    \/ StepCall
    \/ EnterDensityPressureCalc
    \/ RhoCalc
    \/ RhoWrite
    \/ EnterAccelFieldCalc
    \/ AccCalc
    \/ AccWrite
    \/ EnterIntegrate
    \/ Integrate
    \/ Boundary

StepSpec == StepInit /\ [][StepNext]_vars

InTick == tick > 0

\* C9: in every tick, step runs the density/pressure stage for all
\* particles, then the force stage for all particles, then integration and
\* then boundary enforcement: an acceleration computed in the tick has read
\* rho and p that the tick's density/pressure stage wrote for every particle,
\* a particle integrated in the tick found every particle's acceleration
\* written by the tick's force stage, a particle's boundary test follows
\* its integration, and when step returns every field of every particle
\* has been written in that tick.
C9_StagesToCompletion ==
    InTick =>
       /\ \A i \in DOMAIN acc_vec :
             acc_vec[i].t = tick =>
                acc_vec[i].rho_seen = {tick} /\ acc_vec[i].p_seen = {tick}
       /\ \A i \in DOMAIN cpu :
             /\ cpu[i].acc = tick => Seen(cpu, "rho") = {tick}
             /\ cpu[i].pos = tick => cpu[i].acc_seen = {tick}
             /\ cpu[i].bounded = tick => cpu[i].bnd_pos = tick
       /\ step_pc = <<"idle">> =>
             \A f \in {"rho", "p", "acc", "vel", "pos", "bounded"} :
                Seen(cpu, f) = {tick}

\* The second tick is over, every stage having worked on two particles or
\* more, one of them put back on the floor.
C9_Witness ==
    /\ tick = 2
    /\ step_pc = <<"idle">>
    /\ ArrLen(cpu) >= 2
    /\ \E i \in DOMAIN cpu : cpu[i].clamped = tick

\* ------------------------------------------- the GPU demo's frame loop

MaxFrames == 10

\* The Update systems of a frame that the model follows.
UpdateSystems ==
    {"sync_sprites_from_gpu", "queue_particle_buffer", "update_grid_buffers"}

\* sync_sprites_from_gpu, which the demo schedules before
\* update_grid_buffers: one arm of its state machine per call.  In arm 3 the
\* readback buffer is mapped; if the map succeeds the host SPHState takes
\* the particles the buffer holds.
SyncSpritesFromGpu ==
    /\ dphase = "update"
    /\ "sync_sprites_from_gpu" \notin systems_run
    /\ systems_run' = systems_run \cup {"sync_sprites_from_gpu"}
    /\ \/ /\ fsm = 0
          /\ allow_copy' = TRUE
          /\ fsm' = 1
          /\ UNCHANGED host_ver
       \/ /\ fsm = 1
          /\ allow_copy' = FALSE
          /\ fsm' = 2
          /\ UNCHANGED host_ver
       \/ /\ fsm = 2
          /\ fsm' = 3
          /\ UNCHANGED <<allow_copy, host_ver>>
       \/ /\ fsm = 3
          /\ \E map_ok \in BOOLEAN :
                IF map_ok
                THEN host_ver' = rb_ver /\ fsm' = 4
                ELSE host_ver' = host_ver /\ fsm' = 0
          /\ UNCHANGED allow_copy
       \/ /\ fsm = 4
          /\ allow_copy' = FALSE
          /\ fsm' = 0
          /\ UNCHANGED host_ver
    /\ UNCHANGED <<otherVars, gridVars, gpuVars, frameVars, stepVars, dphase,
                   use_gpu_integration, gpu_ver, rb_ver, grid_ver,
                   ext_allow_copy, consumed>>

\* queue_particle_buffer: the host particles are uploaded unless the GPU
\* integrates.
QueueParticleBuffer ==
    /\ dphase = "update"
    /\ "queue_particle_buffer" \notin systems_run
    /\ systems_run' = systems_run \cup {"queue_particle_buffer"}
    /\ gpu_ver' = IF use_gpu_integration THEN gpu_ver ELSE host_ver
    /\ UNCHANGED <<otherVars, gridVars, gpuVars, frameVars, stepVars, dphase,
                   use_gpu_integration, host_ver, rb_ver, grid_ver,
                   allow_copy, ext_allow_copy, fsm, consumed>>

\* update_grid_buffers: GridBuffers::update rebuilds the grid from the host
\* SPHState and writes it to the grid buffers.
UpdateGridBuffers ==
    /\ dphase = "update"
    /\ "update_grid_buffers" \notin systems_run
    /\ "sync_sprites_from_gpu" \in systems_run
    /\ systems_run' = systems_run \cup {"update_grid_buffers"}
    /\ grid_ver' = host_ver
    /\ UNCHANGED <<otherVars, gridVars, gpuVars, frameVars, stepVars, dphase,
                   use_gpu_integration, host_ver, gpu_ver, rb_ver,
                   allow_copy, ext_allow_copy, fsm, consumed>>

\* The Extract schedule after Update: extract_allow_copy.
ExtractFrame ==
    /\ dphase = "update"
    /\ systems_run = UpdateSystems
    /\ ext_allow_copy' = allow_copy
    /\ dphase' = "render"
    /\ UNCHANGED <<otherVars, gridVars, gpuVars, frameVars, stepVars, systems_run,
                   use_gpu_integration, host_ver, gpu_ver, rb_ver, grid_ver,
                   allow_copy, fsm, consumed>>

\* The render graph of the frame: DensityNode's density and force stages read
\* the particle buffer and the grid buffers, its integrate stage advances the
\* particle buffer by one tick, its copy fills the readback buffer.
RenderFrame ==
    /\ dphase = "render"
    /\ gpu_ver < MaxFrames
    /\ LET d == Range(DensityNodeDispatches(pipes, ext_allow_copy))
           after == IF "integrate" \in d THEN gpu_ver + 1 ELSE gpu_ver
       IN /\ consumed' = IF "density" \in d
                         THEN [pos |-> gpu_ver, grid |-> grid_ver]
                         ELSE consumed
          /\ gpu_ver' = after
          /\ rb_ver' = IF "copy" \in d THEN after ELSE rb_ver
    /\ dphase' = "update"
    /\ systems_run' = {}
    /\ UNCHANGED <<otherVars, gridVars, gpuVars, frameVars, stepVars,
                   use_gpu_integration, host_ver, grid_ver, allow_copy,
                   ext_allow_copy, fsm>>

\* The demo after Startup: the GPU particle buffer and the grid buffers
\* filled from the host SPHState, the readback buffer empty, the compute
\* pipelines ready.
DemoInit ==
    /\ particles = <<>>
    /\ cgrid = NoGrid
    /\ hgrid = NoHashGrid
    /\ GpuIdle
    /\ fphase = "off"
    /\ pipes = [p \in Pipelines |->
                   IF p \in Range(Stages) THEN "ready" ELSE "compiled"]
    /\ ran = <<>>
    /\ dispatched = <<>>
    /\ dphase = "update"
    /\ systems_run = {}
    /\ use_gpu_integration = TRUE
    /\ host_ver = 0
    /\ gpu_ver = 0
    /\ rb_ver = -1
    /\ grid_ver = 0
    /\ allow_copy = TRUE
    /\ ext_allow_copy = TRUE
    /\ fsm = 0
    /\ consumed = <<>>
    /\ StepIdle
    /\ OtherIdle

DemoNext ==
    \/ SyncSpritesFromGpu
    \/ QueueParticleBuffer
    \/ UpdateGridBuffers
    \/ ExtractFrame
    \/ RenderFrame

DemoSpec == DemoInit /\ [][DemoNext]_vars

\* C10: in every tick the grid that the density and force stages consume is
\* the grid of the positions those stages read, the positions current at the
\* start of the tick; a grid built from an earlier tick's positions is never
\* consumed.  Stated for the GPU engine with UseGpuIntegration true.
C10_GridIsCurrent ==
    (use_gpu_integration /\ consumed # <<>>) => consumed.grid = consumed.pos

\* A tick whose stages read the positions of tick 2 with a grid built from
\* the positions the host has held since startup.
C10_Witness ==
    /\ use_gpu_integration
    /\ consumed # <<>>
    /\ consumed.pos = 2
    /\ consumed.grid = 0

\* ------------------------------------------- the grid built a second time

\* The particles the buffers list for cell c: the slots of the cell's range.
CellEntries(sts, ents, c, n_cells, n) ==
    {ents[s] : s \in sts[c] .. (IF c + 1 < n_cells THEN sts[c + 1] ELSE n) - 1}

\* What a build leaves: the starts and the entries of the parallel build,
\* and the grid of build_compressed_grid.
GridLeft ==
    [built |-> TRUE, starts |-> starts, entries |-> entries_buf, host |-> cgrid]

\* The next frame over the same positions: GridBuffers::update builds the
\* host grid again and may write its entries over the entries buffer (it
\* runs when update_grid_buffers is scheduled), and the grid passes run
\* again on the buffers the frame before left.
Rebuild ==
    /\ phase = "done"
    /\ ~prev_grid.built
    /\ prev_grid' = GridLeft
    /\ cgrid' = build_compressed_grid(particles, "release")
    /\ \E upload \in BOOLEAN :
          entries_buf' = IF upload THEN cgrid'.entries ELSE entries_buf
    /\ phase' = "clear_counts"
    /\ items' = <<>>
    /\ UNCHANGED <<particles, hgrid, g_num_cells, counts, starts, block_sums,
                   cursor, frameVars, demoVars, ext_allow_copy, stepVars,
                   engVars, rbVars>>

RebuildNext == GpuGridNext \/ Rebuild

RebuildSpec == GpuGridInit /\ [][RebuildNext]_vars

\* C15: building the grid twice over unchanged positions leaves identical
\* starts and, for every cell, identical sets of entries: for the host
\* builder, and for the parallel builder whatever the two interleavings of
\* the histogram and scatter work items.
C15_RebuildIdentical ==
    (prev_grid.built /\ phase = "done") =>
       /\ starts = prev_grid.starts
       /\ \A c \in 0 .. g_num_cells - 1 :
             CellEntries(starts, entries_buf, c, g_num_cells, NumParticles)
                = CellEntries(prev_grid.starts, prev_grid.entries, c,
                              g_num_cells, NumParticles)
       /\ cgrid.starts = prev_grid.host.starts
       /\ \A c \in 0 .. cgrid.num_cells - 1 :
             CellEntries(cgrid.starts, cgrid.entries, c, cgrid.num_cells,
                         NumParticles)
                = CellEntries(prev_grid.host.starts, prev_grid.host.entries, c,
                              cgrid.num_cells, NumParticles)

\* Two builds are over whose work items ran in different orders: a cell of
\* two particles lists them in one order after the first build and in the
\* other after the second.
C15_Witness ==
    /\ prev_grid.built
    /\ phase = "done"
    /\ entries_buf # prev_grid.entries
    /\ \E c \in 0 .. g_num_cells - 1 : Cardinality(ParticlesOfCell(c)) >= 2

\* ------------------------------------------------------ SPHState by value
\* Lengths, velocities and accelerations are integers, H is the smoothing
\* radius, and densities are in units of 4 / (pi h^8), the factor k of
\* w_poly6.

\* The most particles of an engine whose steps are followed.
EngParticles == 2

\* The most steps of one engine.
EngTicks == 2

\* The largest n_x and n_y of init_grid.
LatticeMax == 2

\* vel.y *= -3.0 (sph2d.rs line 209).
FloorBounce == -3

\* k * (h * h - r2).powi(3) inside the support, 0.0 outside it.
w_poly6(r2, h) ==
    IF r2 >= 0 /\ r2 <= h * h
    THEN (h * h - r2) * (h * h - r2) * (h * h - r2)
    ELSE 0

Particle_new(pos) ==
    [pos |-> pos, vel |-> <<0, 0>>, acc |-> <<0, 0>>, rho |-> 0, p |-> 0]

SPHState_new(h, rho_0, k, mu, m) ==
    [h |-> h, rho_0 |-> rho_0, k |-> k, mu |-> mu, m |-> m,
     particles |-> <<>>]

\* Vec::push
ArrPush(a, v) ==
    [i \in 0 .. ArrLen(a) |-> IF i < ArrLen(a) THEN a[i] ELSE v]

\* x = ix as f32 * spacing, y = iy as f32 * spacing
LatticePosSwapped(ix, iy, spacing) == <<iy * spacing, ix * spacing>>
LatticePos(ix, iy, spacing) == <<ix * spacing, iy * spacing>>

RECURSIVE InitGridLoop(_, _, _, _, _, _)
\* for iy in 0..n_y { for ix in 0..n_x { push } }
InitGridLoop(ps, ix, iy, n_x, n_y, spacing) ==
    IF iy >= n_y THEN ps
    ELSE IF ix >= n_x THEN InitGridLoop(ps, 0, iy + 1, n_x, n_y, spacing)
    ELSE InitGridLoop(ArrPush(ps, Particle_new(LatticePos(ix, iy, spacing))),
                      ix + 1, iy, n_x, n_y, spacing)

init_grid(s, n_x, n_y, spacing) ==
    [s EXCEPT !.particles = InitGridLoop(s.particles, 0, 0, n_x, n_y, spacing)]

PositionsOf(ps) == [i \in DOMAIN ps |-> ps[i].pos]

length_squared(a, b) ==
    (a[1] - b[1]) * (a[1] - b[1]) + (a[2] - b[2]) * (a[2] - b[2])

\* The particles listed in the 3 x 3 cells around cell c.
BlockList(grid, c) ==
    UNION {IF <<c[1] + ox, c[2] + oy>> \in DOMAIN grid
           THEN {grid[<<c[1] + ox, c[2] + oy>>][n] :
                    n \in 1 .. Len(grid[<<c[1] + ox, c[2] + oy>>])}
           ELSE {} : ox \in -1 .. 1, oy \in -1 .. 1}

\* for ox in -1..=0 { for oy in -1..=1 }: the column to the right is left
\* out.
BlockCellsLeft(c) ==
    [n \in 1 .. 6 |-> <<c[1] + ((n - 1) \div 3) - 1, c[2] + ((n - 1) % 3) - 1>>]

\* for ox in -1..=1 { for oy in -1..=1 }: the cells c + (ox, oy) in the
\* order the loops visit them.
BlockCells(c) ==
    [n \in 1 .. 9 |-> <<c[1] + ((n - 1) \div 3) - 1, c[2] + ((n - 1) % 3) - 1>>]

RECURSIVE NeighbourLoop(_, _, _)
\* if let Some(list) = grid.get(..) { for &j in list }: the particles
\* visited from cell cells[n] on, in order.
NeighbourLoop(grid, cells, n) ==
    IF n > Len(cells) THEN <<>>
    ELSE (IF cells[n] \in DOMAIN grid THEN grid[cells[n]] ELSE <<>>)
            \o NeighbourLoop(grid, cells, n + 1)

\* The particles the two stages visit for a particle in cell c.
NeighbourSeq(grid, c) == NeighbourLoop(grid, BlockCells(c), 1)

\* rho = term: the last neighbour's term replaces the sum
RhoAssign(rho, term) == term

\* rho += self.m * w_poly6(r2, self.h)
RhoAdd(rho, term) == rho + term

RECURSIVE RhoLoop(_, _, _, _, _)
\* The visits of particle i in density_pressure_calc from the n-th on.
RhoLoop(s, i, js, n, rho) ==
    IF n > Len(js) THEN rho
    ELSE LET r2 == length_squared(s.particles[i].pos, s.particles[js[n]].pos)
         IN RhoLoop(s, i, js, n + 1,
                    IF r2 < s.h * s.h
                    THEN RhoAdd(rho, s.m * w_poly6(r2, s.h))
                    ELSE rho)

\* The first loop of density_pressure_calc for particle i.
RhoOf(s, grid, i) ==
    RhoLoop(s, i, NeighbourSeq(grid, cell(s.particles[i].pos, s.h)), 1, 0)

\* p = k * (rho - rho_0).max(0.0)
PressureUnclamped(k, rho, rho_0) == k * (rho - rho_0)
PressureOf(k, rho, rho_0) == k * Max(rho - rho_0, 0)

RECURSIVE RhoVecLoop(_, _, _, _, _)
\* The first loop of density_pressure_calc, its iterations in the order ord:
\* rho_vec[i] = rho.
RhoVecLoop(s, grid, ord, n, rv) ==
    IF n > Len(ord) THEN rv
    ELSE RhoVecLoop(s, grid, ord, n + 1,
                    [rv EXCEPT ![ord[n]] = RhoOf(s, grid, ord[n])])

\* for i in 0..self.particles.len()
IndexOrder(ps) == [n \in 1 .. ArrLen(ps) |-> n - 1]

\* density_pressure_calc with the grid it builds and the order of its first
\* loop given.
DensityStage(s, grid, ord) ==
    LET rv == RhoVecLoop(s, grid, ord, 1, ArrFill(ArrLen(s.particles), 0))
    IN [s EXCEPT !.particles =
          [i \in DOMAIN s.particles |->
             [s.particles[i] EXCEPT !.rho = rv[i],
                                    !.p = PressureOf(s.k, rv[i], s.rho_0)]]]

density_pressure_calc(s) ==
    DensityStage(s, build_grid(PositionsOf(s.particles)), IndexOrder(s.particles))

\* What one visit of accel_field_calc adds to acc_vec[i]: a_p + a_v of the
\* pair, kept as the values it is computed from.
ForceTerm(s, i, j) ==
    [j |-> j,
     r |-> <<s.particles[i].pos[1] - s.particles[j].pos[1],
             s.particles[i].pos[2] - s.particles[j].pos[2]>>,
     p_i |-> s.particles[i].p, p_j |-> s.particles[j].p,
     rho_j |-> s.particles[j].rho,
     dv |-> <<s.particles[j].vel[1] - s.particles[i].vel[1],
              s.particles[j].vel[2] - s.particles[i].vel[2]>>]

\* acc_vec[i] += a_p + a_v: the sum as the bag of its terms
ForceAdd(sum, term) == sum (+) SetToBag({term})

RECURSIVE ForceLoop(_, _, _, _, _)
\* The visits of particle i in accel_field_calc from the n-th on.
ForceLoop(s, i, js, n, sum) ==
    IF n > Len(js) THEN sum
    ELSE ForceLoop(s, i, js, n + 1,
                   IF i = js[n] THEN sum
                   ELSE ForceAdd(sum, ForceTerm(s, i, js[n])))

\* The first loop of accel_field_calc for particle i, before gravity.
ForceOf(s, grid, i) ==
    ForceLoop(s, i, NeighbourSeq(grid, cell(s.particles[i].pos, s.h)), 1,
              EmptyBag)

\* What accel_field_calc sums for each particle.
accel_terms(s) ==
    LET grid == build_grid(PositionsOf(s.particles))
    IN [i \in DOMAIN s.particles |-> ForceOf(s, grid, i)]

\* vel += acc * dt; pos += vel * dt; acc = 0
IntegrateOneClearsAcc(q, dt) ==
    LET v == <<q.vel[1] + q.acc[1] * dt, q.vel[2] + q.acc[2] * dt>>
    IN [q EXCEPT !.vel = v,
                 !.pos = <<q.pos[1] + v[1] * dt, q.pos[2] + v[2] * dt>>,
                 !.acc = <<0, 0>>]

\* vel += acc * dt; pos += vel * dt
IntegrateOne(q, dt) ==
    LET v == <<q.vel[1] + q.acc[1] * dt, q.vel[2] + q.acc[2] * dt>>
    IN [q EXCEPT !.vel = v,
                 !.pos = <<q.pos[1] + v[1] * dt, q.pos[2] + v[2] * dt>>]

\* if p.pos.y < 0.0 { p.pos.y = 0.0; p.vel.y *= -3.0; }
BounceOne(q) ==
    IF q.pos[2] < 0
    THEN [q EXCEPT !.pos = <<q.pos[1], 0>>,
                   !.vel = <<q.vel[1], q.vel[2] * FloorBounce>>]
    ELSE q

integrate(s, dt) ==
    [s EXCEPT !.particles =
       [i \in DOMAIN s.particles |-> BounceOne(IntegrateOne(s.particles[i], dt))]]

\* The stiffness, rest density and mass of the engines followed: new takes
\* every f32, so a mass of 0 and a negative mass are among them.
Stiffness == {-1, 3}
RestDensities == {70}
Masses == {-1, 0, 1}

\* The spacings of init_grid.
Spacings == {1, 2}

\* What accel_field_calc may store in acc: the forces are not computed here.
AccValues == {<<1, -1>>, <<-1, 1>>}

\* What the callers pass to step: dt, the walls and the restitution
\* (tests/sph_basics.rs passes bounce = 3.0, the examples -3.0).
StepArgs == [dt : {1}, x_min : {-1}, x_max : {2}, bounce : {-3, 3}]

EngInit ==
    /\ particles = <<>>
    /\ cgrid = NoGrid
    /\ hgrid = NoHashGrid
    /\ GpuIdle
    /\ FrameIdle
    /\ DemoIdle
    /\ ext_allow_copy = TRUE
    /\ StepIdle
    /\ prev_grid = NoPrevGrid
    /\ RbIdle
    /\ \E k \in Stiffness, rho_0 \in RestDensities, m \in Masses :
          sph = SPHState_new(H, rho_0, k, 0, m)
    /\ init_args = <<>>
    /\ step_args \in StepArgs
    /\ integrated = <<>>
    /\ acc_terms = <<>>
    /\ epc = "new"
    /\ eticks = 0

\* sph.init_grid(n_x, n_y, spacing) on the engine SPHState::new returned.
EngInitGrid ==
    /\ epc = "new"
    /\ \E n_x \in 0 .. LatticeMax, n_y \in 0 .. LatticeMax, spacing \in Spacings :
          /\ sph' = init_grid(sph, n_x, n_y, spacing)
          /\ init_args' = [n_x |-> n_x, n_y |-> n_y, spacing |-> spacing]
    /\ epc' = "init_grid"
    /\ UNCHANGED <<engRest, step_args, integrated, acc_terms, eticks>>

\* step: self.density_pressure_calc()
EngDensityPressureCalc ==
    /\ epc \in {"init_grid", "integrate"}
    /\ eticks < EngTicks
    /\ ArrLen(sph.particles) <= EngParticles
    /\ sph' = density_pressure_calc(sph)
    /\ epc' = "density_pressure_calc"
    /\ UNCHANGED <<engRest, init_args, step_args, integrated, acc_terms, eticks>>

\* step: self.accel_field_calc()
EngAccelFieldCalc ==
    /\ epc = "density_pressure_calc"
    /\ \E av \in [DOMAIN sph.particles -> AccValues] :
          sph' = [sph EXCEPT !.particles =
                    [i \in DOMAIN sph.particles |->
                       [sph.particles[i] EXCEPT !.acc = av[i]]]]
    /\ acc_terms' = accel_terms(sph)
    /\ epc' = "accel_field_calc"
    /\ UNCHANGED <<engRest, init_args, step_args, integrated, eticks>>

\* step: self.integrate(dt)
EngIntegrate ==
    /\ epc = "accel_field_calc"
    /\ sph' = integrate(sph, step_args.dt)
    /\ integrated' = [i \in DOMAIN sph.particles |->
                        IntegrateOne(sph.particles[i], step_args.dt)]
    /\ epc' = "integrate"
    /\ eticks' = eticks + 1
    /\ UNCHANGED <<engRest, init_args, step_args, acc_terms>>

EngNext == EngInitGrid \/ EngDensityPressureCalc \/ EngAccelFieldCalc \/ EngIntegrate

EngSpec == EngInit /\ [][EngNext]_vars

\* The particles of the engine.
EngIdx == DOMAIN sph.particles

\* C11: after every step every particle has pos.y >= 0 and
\* x_min <= pos.x <= x_max for the walls the caller passes to step.
C11_WithinBounds ==
    epc = "integrate" =>
      \A i \in EngIdx :
         /\ sph.particles[i].pos[2] >= 0
         /\ step_args.x_min <= sph.particles[i].pos[1]
         /\ sph.particles[i].pos[1] <= step_args.x_max

\* A step has moved a particle past a wall, another below the floor.
C11_Witness ==
    /\ epc = "integrate"
    /\ \E i \in EngIdx : integrated[i].pos[1] > step_args.x_max
    /\ \E i \in EngIdx : integrated[i].pos[2] < 0

\* The floor alone is kept: after every step every particle has pos.y >= 0.
FloorKept ==
    epc = "integrate" => \A i \in EngIdx : sph.particles[i].pos[2] >= 0

\* C12: a particle whose integrated pos.y is below 0 ends the step with
\* pos.y = 0 and vel.y equal to its integrated vel.y times the restitution
\* the caller passed, and a particle that crosses no boundary keeps its
\* integrated position and velocity.
C12_Restitution ==
    epc = "integrate" =>
      \A i \in EngIdx :
         /\ integrated[i].pos[2] < 0 =>
               /\ sph.particles[i].pos[2] = 0
               /\ sph.particles[i].vel[2] =
                     integrated[i].vel[2] * step_args.bounce
         /\ (/\ integrated[i].pos[2] >= 0
             /\ integrated[i].pos[1] >= step_args.x_min
             /\ integrated[i].pos[1] <= step_args.x_max) =>
               /\ sph.particles[i].pos = integrated[i].pos
               /\ sph.particles[i].vel = integrated[i].vel

\* A step has moved a particle below the floor with a vertical velocity,
\* and the caller passes the restitution of tests/sph_basics.rs.
C12_Witness ==
    /\ epc = "integrate"
    /\ step_args.bounce = 3
    /\ \E i \in EngIdx :
          integrated[i].pos[2] < 0 /\ integrated[i].vel[2] # 0

\* What the code does at the floor: pos.y = 0 and vel.y times -3.0, whatever
\* the caller passes; every other particle keeps what integration gave it.
FloorBounceApplied ==
    epc = "integrate" =>
      \A i \in EngIdx :
         IF integrated[i].pos[2] < 0
         THEN /\ sph.particles[i].pos = <<integrated[i].pos[1], 0>>
              /\ sph.particles[i].vel =
                    <<integrated[i].vel[1], integrated[i].vel[2] * FloorBounce>>
         ELSE /\ sph.particles[i].pos = integrated[i].pos
              /\ sph.particles[i].vel = integrated[i].vel

\* C13: init_grid(n_x, n_y, spacing) on a fresh engine leaves n_x * n_y
\* particles, the one of index iy * n_x + ix at (ix * spacing, iy * spacing),
\* each with zero velocity, acceleration, density and pressure.
C13_LatticeLayout ==
    epc = "init_grid" =>
      /\ EngIdx = 0 .. init_args.n_x * init_args.n_y - 1
      /\ \A ix \in 0 .. init_args.n_x - 1, iy \in 0 .. init_args.n_y - 1 :
            sph.particles[iy * init_args.n_x + ix] =
               [pos |-> <<ix * init_args.spacing, iy * init_args.spacing>>,
                vel |-> <<0, 0>>, acc |-> <<0, 0>>, rho |-> 0, p |-> 0]

\* init_grid has laid out more than one row of more than one particle.
C13_Witness ==
    /\ epc = "init_grid"
    /\ init_args.n_x >= 2
    /\ init_args.n_y >= 2
    /\ ArrLen(sph.particles) = init_args.n_x * init_args.n_y

\* C14: after every density/pressure stage each particle's p is
\* k * max(rho - rho_0, 0): never negative when k >= 0, and exactly 0 when
\* rho <= rho_0.
C14_PressureEquation ==
    epc = "density_pressure_calc" =>
      \A i \in EngIdx :
         LET q == sph.particles[i]
         IN /\ q.p = IF q.rho > sph.rho_0 THEN sph.k * (q.rho - sph.rho_0) ELSE 0
            /\ sph.k >= 0 => q.p >= 0
            /\ q.rho <= sph.rho_0 => q.p = 0

\* A density/pressure stage has left one engine's particles above the rest
\* density with a positive pressure.
C14_Witness ==
    /\ epc = "density_pressure_calc"
    /\ sph.k > 0
    /\ \E i \in EngIdx :
          sph.particles[i].rho > sph.rho_0 /\ sph.particles[i].p > 0

\* A density/pressure stage has left particles at or below the rest density.
BelowRestDensity ==
    /\ epc = "density_pressure_calc"
    /\ \E i \in EngIdx : sph.particles[i].rho <= sph.rho_0

\* C21: SPHState::new with h <= 0 or m <= 0 fails, so that no engine value
\* with h <= 0 or m <= 0 is ever obtained and stepped.
C21_ConstructionRejects ==
    epc # "none" => sph.h > 0 /\ sph.m > 0

\* An engine that new returned with m <= 0 has particles and has been
\* stepped.
C21_Witness ==
    /\ epc = "integrate"
    /\ sph.m <= 0
    /\ EngIdx # {}

\* new keeps what it is given: the mass of the engine is the caller's in
\* every state, whatever its sign.
MassKept == epc # "none" => sph.m \in Masses /\ sph.h = H

\* The fields of particle i that a step from this state to the next leaves
\* as they are.
Keeps(i, fields) ==
    \A f \in fields : sph'.particles[i][f] = sph.particles[i][f]

\* C23: the density/pressure stage changes only rho and p of each particle,
\* the force stage only acc, integration with the boundary only vel and pos,
\* and no stage changes the number of particles or their index order.
C23_StageFieldGroups ==
    [][(epc' \in {"density_pressure_calc", "accel_field_calc", "integrate"}) =>
          /\ DOMAIN sph'.particles = DOMAIN sph.particles
          /\ \A i \in EngIdx :
                /\ epc' = "density_pressure_calc" => Keeps(i, {"pos", "vel", "acc"})
                /\ epc' = "accel_field_calc" => Keeps(i, {"pos", "vel", "rho", "p"})
                /\ epc' = "integrate" => Keeps(i, {"acc", "rho", "p"})]_vars

\* Two steps have run on two particles or more, and a particle has a
\* density, an acceleration, a velocity and a position that the stages
\* wrote.
C23_Witness ==
    /\ epc = "integrate"
    /\ eticks = 2
    /\ ArrLen(sph.particles) >= 2
    /\ \E i \in EngIdx :
          /\ sph.particles[i].rho # 0
          /\ sph.particles[i].acc # <<0, 0>>
          /\ sph.particles[i].vel # <<0, 0>>
          /\ sph.particles[i].pos #
                LatticePos(i % init_args.n_x, i \div init_args.n_x, init_args.spacing)

\* The engine has as many particles after every stage as init_grid pushed.
CountKept ==
    epc \notin {"none", "new"} =>
       ArrLen(sph.particles) = init_args.n_x * init_args.n_y

\* The cell of particle i, and its squared distance to particle j.
CellOf(i) == cell(sph.particles[i].pos, sph.h)

Dist2(i, j) == length_squared(sph.particles[i].pos, sph.particles[j].pos)

\* The particles within distance h of particle i, itself included.
Within(i) == {j \in EngIdx : Dist2(i, j) < sph.h * sph.h}

\* The hash grid of the engine's positions.
EngGrid == build_grid(PositionsOf(sph.particles))

\* The particles whose terms accel_field_calc summed for particle i.
TermsOf(i) == {t.j : t \in BagToSet(acc_terms[i])}

\* C27: every particle j within distance h of particle i has its cell in the
\* 3 x 3 block around the cell of i; the density of i after
\* density_pressure_calc is the sum of m * W over all particles within
\* distance h, i included; and the force sum of i has one term for each
\* particle j # i of the 3 x 3 block, those within distance h among them.
C27_NeighboursComplete ==
    /\ epc \in {"density_pressure_calc", "accel_field_calc"} =>
          \A i \in EngIdx : \A j \in Within(i) :
             CellOf(j) \in Range(BlockCells(CellOf(i)))
    /\ epc = "density_pressure_calc" =>
          \A i \in EngIdx :
             sph.particles[i].rho =
                sph.m * SumOver([j \in EngIdx |-> w_poly6(Dist2(i, j), sph.h)],
                                Within(i))
    /\ epc = "accel_field_calc" =>
          \A i \in EngIdx :
             /\ TermsOf(i) = BlockList(EngGrid, CellOf(i)) \ {i}
             /\ Within(i) \ {i} \subseteq TermsOf(i)
             /\ BagCardinality(acc_terms[i]) = Cardinality(TermsOf(i))

\* The force stage has summed, for a particle, a term of a particle that is
\* within distance h of it in the cell to its right.
C27_Witness ==
    /\ epc = "accel_field_calc"
    /\ sph.m > 0
    /\ \E i \in EngIdx : \E j \in TermsOf(i) :
          /\ j \in Within(i)
          /\ CellOf(j)[1] = CellOf(i)[1] + 1
          /\ sph.particles[i].rho = sph.m * (w_poly6(0, sph.h)
                                            + w_poly6(Dist2(i, j), sph.h))

\* The density stage has run on two particles that are not in each other's
\* 3 x 3 block: each has its own term only.
FarApart ==
    /\ epc = "density_pressure_calc"
    /\ \E i, j \in EngIdx :
          /\ CellOf(j) \notin Range(BlockCells(CellOf(i)))
          /\ sph.particles[i].rho = sph.m * w_poly6(0, sph.h)

\* The force stage has visited a particle of the block that is at distance
\* h or more: its term is in the sum, and the kernels make it zero.
VisitedBeyondH ==
    /\ epc = "accel_field_calc"
    /\ \E i \in EngIdx : \E j \in TermsOf(i) : j \notin Within(i)

\* The orders in which the entries of seq can be taken.
PermsOf(seq) ==
    {[n \in 1 .. Len(seq) |-> seq[f[n]]] :
        f \in {g \in [1 .. Len(seq) -> 1 .. Len(seq)] :
                 \A a, b \in 1 .. Len(seq) : a # b => g[a] # g[b]}}

\* The grids that list the same particles in every cell as grid does, in
\* any order inside the cell.
CellOrders(grid) ==
    {g \in [DOMAIN grid -> UNION {PermsOf(grid[c]) : c \in DOMAIN grid}] :
        \A c \in DOMAIN grid : g[c] \in PermsOf(grid[c])}

\* C28: the density stage leaves the same state for every order in which its
\* first loop takes the particles and every order of the indices inside the
\* cells of the grid, each particle's density computed from the positions
\* all particles had when the stage began; and the force stage sums the same
\* terms for every particle, computed from the fields all particles had
\* when the stage began, for every order of the indices inside the cells.
C28_OrderIndependent ==
    [][/\ epc' = "density_pressure_calc" =>
             \A ord \in PermsOf(IndexOrder(sph.particles)) :
                \A g \in CellOrders(EngGrid) :
                   sph' = DensityStage(sph, g, ord)
       /\ epc' = "accel_field_calc" =>
             \A g \in CellOrders(EngGrid) :
                acc_terms' = [i \in EngIdx |-> ForceOf(sph, g, i)]]_vars

\* The force stage has run on two particles of one cell that are within
\* distance h of each other, after a density stage that gave each of them a
\* density of two terms.
C28_Witness ==
    /\ epc = "accel_field_calc"
    /\ sph.m > 0
    /\ \E c \in DOMAIN EngGrid :
          /\ Len(EngGrid[c]) >= 2
          /\ \E i \in Range(EngGrid[c]) : \E j \in Range(EngGrid[c]) \ {i} :
                /\ j \in Within(i)
                /\ sph.particles[i].rho > sph.m * w_poly6(0, sph.h)
                /\ BagCardinality(acc_terms[i]) >= 1

\* A cell of the grid has more than one order.
SeveralCellOrders ==
    epc = "density_pressure_calc" => Cardinality(CellOrders(EngGrid)) <= 1

\* ------------------------------------------------- the readback systems
\* readback_and_compare (buffers.rs), sync_sprites_from_gpu (gpu_demo.rs),
\* readback (gpu_parity10.rs) and orchestrate_100 (gpu_integration_parity.rs).
\* Densities, pressures and accelerations are integers, accelerations in
\* units of 1 / AccScale; a length is kept as its square.

\* The most particles on either side of a comparison.
RbParticles == 2

AccScale == 4

\* buffers.rs line 559
FRAMES_BEFORE_RD == 60

\* gpu_parity10.rs line 19
MAX_ABS_P == 30

\* 1 %, for rho, p and a
MAX_REL == <<1, 100>>

\* 0.50
MAX_ABS_ACC == <<1, 2>>

RbSystems ==
    {"readback_and_compare", "gpu_demo", "gpu_parity10", "gpu_integration_parity"}

Abs(x) == IF x < 0 THEN -x ELSE x

\* ((b - a) / a.abs().max(EPS)).abs() as the fraction <<numerator,
\* denominator>>. For an integer a the denominator is |a| unless a = 0,
\* when it is EPS = 1e-6: denominator 0 stands for EPS.
rel_err(a, b) == <<Abs(b - a), Abs(a)>>

\* x < y for two such fractions; any positive multiple of 1 / EPS is above
\* every fraction of the values compared.
FracLess(x, y) ==
    IF x[2] = 0 /\ y[2] = 0 THEN x[1] < y[1]
    ELSE IF x[2] = 0 THEN x[1] = 0 /\ y[1] > 0
    ELSE IF y[2] = 0 THEN y[1] > 0
    ELSE x[1] * y[2] < y[1] * x[2]

\* f32::max
FracMax(m, e) == IF FracLess(m, e) THEN e ELSE m

\* $err > $lim
FracGt(x, lim) == FracLess(lim, x)

FracSq(x) == <<x[1] * x[1], x[2] * x[2]>>

\* The four maxima before the comparison loop.
NoErrors ==
    [max_rel_rho |-> <<0, 1>>, max_rel_p |-> <<0, 1>>,
     max_rel_a |-> <<0, 1>>, max_abs_a |-> 0]

\* One pass of the comparison loop: max_abs_a holds diff squared, max_rel_a
\* the fraction of diff squared over cpu_a.length() squared.
CompareStep(m, c, g) ==
    LET diff2 == length_squared(g.acc, c.acc)
        len2 == length_squared(c.acc, <<0, 0>>)
    IN [max_rel_rho |-> FracMax(m.max_rel_rho, rel_err(c.rho, g.rho)),
        max_rel_p |-> FracMax(m.max_rel_p, rel_err(c.p, g.p)),
        max_abs_a |-> Max(m.max_abs_a, diff2),
        max_rel_a |-> FracMax(m.max_rel_a, <<diff2, len2>>)]

RECURSIVE CompareLoop(_, _, _, _)
\* for (cpu, g) in sph.particles.iter().zip(gpu): zip stops at the shorter.
CompareLoop(ref, got, i, m) ==
    IF i >= ArrLen(ref) \/ i >= ArrLen(got) THEN m
    ELSE CompareLoop(ref, got, i + 1, CompareStep(m, ref[i], got[i]))

\* only the relative limit is tested
AccelFailsRelOnly(m) == FracGt(m.max_rel_a, FracSq(MAX_REL))

\* max_rel_a > MAX_REL || max_abs_a > MAX_ABS_ACC
AccelFails(m) ==
    \/ FracGt(m.max_rel_a, FracSq(MAX_REL))
    \/ m.max_abs_a * MAX_ABS_ACC[2] * MAX_ABS_ACC[2]
          > MAX_ABS_ACC[1] * MAX_ABS_ACC[1] * AccScale * AccScale

\* The closure of check!s: the lines logged and whether it returned Ok.
Validate(m) ==
    IF FracGt(m.max_rel_rho, MAX_REL)
    THEN [report |-> <<<<"density", "FAIL">>>>, ok |-> FALSE]
    ELSE IF FracGt(m.max_rel_p, MAX_REL)
    THEN [report |-> <<<<"density", "PASS">>, <<"pressure", "FAIL">>>>,
          ok |-> FALSE]
    ELSE IF AccelFails(m)
    THEN [report |-> <<<<"density", "PASS">>, <<"pressure", "PASS">>,
                       <<"accel", "FAIL">>>>, ok |-> FALSE]
    ELSE [report |-> <<<<"density", "PASS">>, <<"pressure", "PASS">>,
                       <<"accel", "PASS">>>>, ok |-> TRUE]

\* What reading the mapped range leads to in each system: the lines logged
\* and how the run goes on.
ReadResult(sys, ref, got) ==
    IF sys = "readback_and_compare"
    THEN LET v == Validate(CompareLoop(ref, got, 0, NoErrors))
         IN [report |-> v.report,
             outcome |-> IF v.ok THEN "pass" ELSE "panic"]
    ELSE IF sys = "gpu_demo"
    THEN \* sph.particles[i] for every i of the mapped slice
         [report |-> <<>>,
          outcome |-> IF ArrLen(got) > ArrLen(ref) THEN "panic" ELSE "none"]
    ELSE IF ArrLen(got) # ArrLen(ref)
    THEN \* assert_eq!(gpu.len(), sph.particles.len(), ..)
         [report |-> <<>>, outcome |-> "panic"]
    ELSE IF sys = "gpu_parity10"
    THEN LET m == CompareLoop(ref, got, 0, NoErrors)
             dp == {Abs(got[i].p - ref[i].p) : i \in DOMAIN ref}
         IN [report |-> <<>>,
             outcome |-> IF \/ FracGt(m.max_rel_rho, MAX_REL)
                            \/ \E d \in dp : d > MAX_ABS_P
                         THEN "panic" ELSE "exit"]
    ELSE [report |-> <<>>, outcome |-> "exit"]

\* The arm of the system's match that maps the readback buffer.
MapArm(sys) == IF sys = "readback_and_compare" THEN 1 ELSE 3

\* The other arms: what they store in AllowCopy, if anything, and the next
\* state. Arm 0 of the two parity examples steps the host engine.
Arms(sys) ==
    IF sys = "readback_and_compare"
    THEN [st \in {0} |-> [copy |-> <<FALSE>>, next |-> 1]]
    ELSE IF sys = "gpu_demo"
    THEN [st \in {0, 1, 2, 4} |->
            IF st = 0 THEN [copy |-> <<TRUE>>, next |-> 1]
            ELSE IF st = 1 THEN [copy |-> <<FALSE>>, next |-> 2]
            ELSE IF st = 2 THEN [copy |-> <<>>, next |-> 3]
            ELSE [copy |-> <<FALSE>>, next |-> 0]]
    ELSE [st \in {0, 1, 2} |->
            IF st = 0 THEN [copy |-> <<>>, next |-> 1]
            ELSE IF st = 1 THEN [copy |-> <<TRUE>>, next |-> 2]
            ELSE [copy |-> <<FALSE>>, next |-> 3]]

\* The state a failed map leaves: done and state 2 in readback_and_compare,
\* fsm = 0 in the demo, the state as it is in the parity examples, which
\* write AppExit.
AfterMapFailure(sys, st) ==
    IF sys = "readback_and_compare"
    THEN [state |-> 2, done |-> TRUE, outcome |-> "none"]
    ELSE IF sys = "gpu_demo"
    THEN [state |-> 0, done |-> FALSE, outcome |-> "none"]
    ELSE [state |-> st, done |-> FALSE, outcome |-> "exit"]

\* match status.load(..): 0 => yield_now(), 1 => break, 2 => the failure arm
PollOutcomeBreakOnError(status) == IF status = 0 THEN "yield" ELSE "break"
PollOutcome(status) ==
    IF status = 0 THEN "yield" ELSE IF status = 1 THEN "break" ELSE "fail"

\* The particles compared: reference values, and what the GPU may hold for
\* each of them as a difference to the reference.
CpuSamples ==
    {[rho |-> 100, p |-> 0, acc |-> <<0, 0>>],
     [rho |-> 100, p |-> 100, acc |-> <<300, 0>>]}

Deltas ==
    {[rho |-> 0, p |-> 0, acc |-> <<0, 0>>],
     [rho |-> 1, p |-> 0, acc |-> <<0, 0>>],
     [rho |-> 2, p |-> 0, acc |-> <<0, 0>>],
     [rho |-> 0, p |-> 1, acc |-> <<0, 0>>],
     [rho |-> 0, p |-> 2, acc |-> <<0, 0>>],
     [rho |-> 0, p |-> 0, acc |-> <<1, 0>>],
     [rho |-> 0, p |-> 0, acc |-> <<3, 0>>]}

GpuOf(c, d) ==
    [rho |-> c.rho + d.rho, p |-> c.p + d.p,
     acc |-> <<c.acc[1] + d.acc[1], c.acc[2] + d.acc[2]>>]

\* The first n elements of array a.
ArrTake(a, n) == [i \in 0 .. n - 1 |-> a[i]]

\* The run goes on: no panic, no AppExit.
RbRunning == rb_outcome \in {"none", "pass"}

\* The system is called and gets past its early returns.
RbEntered ==
    /\ RbRunning
    /\ rb_pc = "out"
    /\ rb_sys = "readback_and_compare" =>
          ~rb_done /\ rb_frames + 1 >= FRAMES_BEFORE_RD

\* *frames_seen += 1 of readback_and_compare, followed up to FRAMES_BEFORE_RD.
FramesSeen ==
    IF rb_sys = "readback_and_compare"
    THEN Min(rb_frames + 1, FRAMES_BEFORE_RD)
    ELSE rb_frames

rbRest ==
    <<gridVars, gpuVars, frameVars, stepVars, ext_allow_copy, engVars,
      prev_grid, dphase, systems_run, use_gpu_integration, host_ver, gpu_ver,
      rb_ver, grid_ver, fsm, consumed>>

RbInit ==
    /\ particles = <<>>
    /\ cgrid = NoGrid
    /\ hgrid = NoHashGrid
    /\ GpuIdle
    /\ FrameIdle
    /\ DemoIdle
    /\ ext_allow_copy = TRUE
    /\ StepIdle
    /\ EngIdle
    /\ prev_grid = NoPrevGrid
    /\ rb_sys \in RbSystems
    /\ rb_state = 0
    /\ rb_done = FALSE
    /\ rb_frames = 0
    /\ rb_pc = "out"
    /\ map_status = 0
    /\ rb_mapped = FALSE
    /\ rb_log = <<>>
    /\ rb_last = "none"
    /\ rb_cpu = <<>>
    /\ rb_gpu = <<>>
    /\ rb_report = <<>>
    /\ rb_outcome = "none"

\* readback_and_compare during the warm-up: frames_seen += 1 and return.
RbWarmUp ==
    /\ rb_sys = "readback_and_compare"
    /\ ~rb_done
    /\ rb_pc = "out"
    /\ rb_frames + 1 < FRAMES_BEFORE_RD
    /\ rb_frames' = rb_frames + 1
    /\ UNCHANGED <<rbRest, allow_copy, rb_sys, rb_state, rb_done, rb_pc,
                   map_status, rb_mapped, rb_log, rb_last, rb_cpu, rb_gpu,
                   rb_report, rb_outcome>>

\* A call that runs an arm other than the mapping one. What the call before
\* read and logged was local to it.
RbArm ==
    /\ RbEntered
    /\ rb_state \in DOMAIN Arms(rb_sys)
    /\ LET arm == Arms(rb_sys)[rb_state]
       IN /\ allow_copy' = IF arm.copy = <<>> THEN allow_copy ELSE arm.copy[1]
          /\ rb_state' = arm.next
    /\ rb_frames' = FramesSeen
    /\ rb_log' = <<>>
    /\ rb_cpu' = <<>>
    /\ rb_gpu' = <<>>
    /\ rb_report' = <<>>
    /\ UNCHANGED <<rbRest, rb_sys, rb_done, rb_pc, map_status, rb_mapped,
                   rb_last, rb_outcome>>

\* The mapping arm up to its wait loop: slice.map_async(MapMode::Read, cb).
\* The reference particles and the contents of the readback buffer are what
\* the run has made them by now.
MapAsync ==
    /\ RbEntered
    /\ rb_state = MapArm(rb_sys)
    /\ \E n \in 1 .. RbParticles, cut \in {"none", "cpu", "gpu"} :
       \E cs \in [0 .. n - 1 -> CpuSamples], ds \in [0 .. n - 1 -> Deltas] :
          /\ rb_cpu' = ArrTake(cs, IF cut = "cpu" THEN n - 1 ELSE n)
          /\ rb_gpu' = ArrTake([i \in 0 .. n - 1 |-> GpuOf(cs[i], ds[i])],
                               IF cut = "gpu" THEN n - 1 ELSE n)
    /\ rb_frames' = FramesSeen
    /\ rb_pc' = "polling"
    /\ map_status' = 0
    /\ rb_log' = <<"map_async">>
    /\ rb_last' = "none"
    /\ rb_report' = <<>>
    /\ UNCHANGED <<rbRest, allow_copy, rb_sys, rb_state, rb_done, rb_mapped,
                   rb_outcome>>

\* The device finishes the map and runs the callback:
\* cb.store(if r.is_ok() { 1 } else { 2 }).
MapCallback ==
    /\ rb_pc = "polling"
    /\ map_status = 0
    /\ \E ok \in BOOLEAN :
          /\ map_status' = IF ok THEN 1 ELSE 2
          /\ rb_mapped' = ok
          /\ rb_log' = Append(rb_log, IF ok THEN "cb_ok" ELSE "cb_err")
    /\ UNCHANGED <<rbRest, allow_copy, rb_sys, rb_state, rb_done, rb_frames,
                   rb_pc, rb_last, rb_cpu, rb_gpu, rb_report, rb_outcome>>

\* The wait loop sees a status other than pending: it breaks to the read,
\* or unmaps and returns.
Poll ==
    /\ rb_pc = "polling"
    /\ PollOutcome(map_status) # "yield"
    /\ IF PollOutcome(map_status) = "break"
       THEN /\ rb_pc' = "reading"
            /\ UNCHANGED <<rb_state, rb_done, rb_mapped, rb_log, rb_last,
                           rb_outcome>>
       ELSE LET after == AfterMapFailure(rb_sys, rb_state)
            IN /\ rb_mapped' = FALSE
               /\ rb_log' = Append(rb_log, "unmap")
               /\ rb_state' = after.state
               /\ rb_done' = after.done
               /\ rb_outcome' = after.outcome
               /\ rb_last' = "failed"
               /\ rb_pc' = "out"
    /\ UNCHANGED <<rbRest, allow_copy, rb_sys, rb_frames, map_status, rb_cpu,
                   rb_gpu, rb_report>>

\* After the loop: slice.get_mapped_range(), the comparison or the mirror,
\* readback.buffer.unmap(), and the end of the call.
ReadMapped ==
    /\ rb_pc = "reading"
    /\ LET r == ReadResult(rb_sys, rb_cpu, rb_gpu)
       IN /\ rb_report' = r.report
          /\ rb_outcome' = r.outcome
    /\ rb_log' = rb_log \o <<"read", "unmap">>
    /\ rb_mapped' = FALSE
    /\ rb_state' = IF rb_sys = "readback_and_compare" THEN 2
                   ELSE IF rb_sys = "gpu_demo" THEN 4
                   ELSE rb_state
    /\ rb_done' = (rb_sys = "readback_and_compare")
    /\ rb_last' = "ok"
    /\ rb_pc' = "out"
    /\ UNCHANGED <<rbRest, allow_copy, rb_sys, rb_frames, map_status, rb_cpu,
                   rb_gpu>>

RbNext == RbWarmUp \/ RbArm \/ MapAsync \/ MapCallback \/ Poll \/ ReadMapped

RbSpec == RbInit /\ [][RbNext]_vars

\* The schedule calls the system every frame and the device finishes every
\* map it is asked for.
FairRbSpec == RbSpec /\ WF_vars(RbNext)

\* The positions of event e in the log of the attempt.
LogAt(e) == {k \in 1 .. Len(rb_log) : rb_log[k] = e}

\* C16: in every readback attempt the mapped range is read only after the
\* map callback has reported success; when it reports failure the data is
\* never read, the buffer is unmapped, and the attempt ends with no second
\* map_async in the same call.
C16_ReadOnlyAfterSuccess ==
    /\ rb_pc = "reading" => map_status = 1 /\ rb_mapped
    /\ \A r \in LogAt("read") : \E c \in LogAt("cb_ok") : c < r
    /\ LogAt("cb_err") # {} => LogAt("read") = {}
    /\ Cardinality(LogAt("map_async")) <= 1
    /\ rb_last = "failed" /\ rb_log # <<>> =>
          /\ rb_log = <<"map_async", "cb_err", "unmap">>
          /\ ~rb_mapped
          /\ rb_pc = "out"

\* An attempt whose map failed has ended.
C16_Witness ==
    /\ rb_last = "failed"
    /\ rb_pc = "out"
    /\ rb_log = <<"map_async", "cb_err", "unmap">>

\* An attempt whose map succeeded has read the range and unmapped.
ReadAfterSuccess ==
    /\ rb_last = "ok"
    /\ rb_log = <<"map_async", "cb_ok", "read", "unmap">>

\* C17: a failed map aborts only that attempt: after it the readback state
\* machine of readback_and_compare and of the demo gets to a new map
\* attempt.
C17_RetryAfterFailure ==
    (rb_sys \in {"readback_and_compare", "gpu_demo"} /\ rb_last = "failed")
       ~> (rb_pc = "polling")

\* readback_and_compare has ended an attempt whose map failed.
C17_Witness ==
    /\ rb_sys = "readback_and_compare"
    /\ rb_last = "failed"
    /\ rb_pc = "out"
    /\ rb_done

\* In the demo a failed map is followed by a new attempt.
DemoRetries ==
    (rb_sys = "gpu_demo" /\ rb_last = "failed") ~> (rb_pc = "polling")

\* The pairs the validator compares.
Compared == DOMAIN rb_cpu \cap DOMAIN rb_gpu

\* |b - a| / max(|a|, EPS) > 1 %
RelExceeds(a, b) == IF a = 0 THEN b # 0 ELSE Abs(b - a) * 100 > Abs(a)

AccDiff2(i) == length_squared(rb_gpu[i].acc, rb_cpu[i].acc)

\* Whether a field is over its limits for some compared pair.
FieldExceeds(f) ==
    IF f = "density"
    THEN \E i \in Compared : RelExceeds(rb_cpu[i].rho, rb_gpu[i].rho)
    ELSE IF f = "pressure"
    THEN \E i \in Compared : RelExceeds(rb_cpu[i].p, rb_gpu[i].p)
    ELSE \/ \E i \in Compared :
               LET len2 == length_squared(rb_cpu[i].acc, <<0, 0>>)
               IN IF len2 = 0 THEN AccDiff2(i) > 0
                  ELSE AccDiff2(i) * 10000 > len2
         \/ \E i \in Compared : AccDiff2(i) * 4 > AccScale * AccScale

Validated == rb_sys = "readback_and_compare" /\ rb_last = "ok"

PassAtLimit ==
    /\ Validated
    /\ rb_outcome = "pass"
    /\ \E i \in Compared : Abs(rb_gpu[i].rho - rb_cpu[i].rho) * 100 = rb_cpu[i].rho

ParitySystems ==
    {"readback_and_compare", "gpu_parity10", "gpu_integration_parity"}

CountsDiffer == ArrLen(rb_cpu) # ArrLen(rb_gpu)

\* C19: a parity run whose read-back particle count differs from the
\* reference count ends in failure before any field is reported as passed.
C19_CountMismatchFails ==
    (rb_sys \in ParitySystems /\ rb_last = "ok" /\ CountsDiffer) =>
       /\ rb_outcome = "panic"
       /\ rb_report = <<>>

\* The validator has compared a readback buffer one particle short of the
\* reference.
C19_Witness ==
    /\ Validated
    /\ ArrLen(rb_gpu) + 1 = ArrLen(rb_cpu)
    /\ ArrLen(rb_gpu) >= 1

\* The two parity examples assert the counts equal before they compare.
ExamplesCheckCount ==
    (rb_sys \in {"gpu_parity10", "gpu_integration_parity"}
        /\ rb_last = "ok" /\ CountsDiffer) => rb_outcome = "panic"

\* ------------------------------------------------ the 10-step parity run
\* gpu_parity10.rs under GPUSPHPlugin. host_ver counts the steps of the host
\* engine (cpu_steps), gpu_ver the ticks behind the particle buffer, rb_ver
\* the ticks behind the readback buffer (-1 before the first copy), and
\* rb_frames is the Local frame of the system readback.

\* if *cpu_steps < 10 (gpu_parity10.rs line 56)
PARITY_STEPS == 10

\* if *frame >= 11, 12, 13 (gpu_parity10.rs lines 65, 71, 77)
COPY_ON_FRAME == 11
COPY_OFF_FRAME == 12
MAP_FRAME == 13

\* The Update systems of a frame that the model follows: readback is
\* ordered before update_grid_buffers only.
ParityUpdateSystems == {"readback", "queue_particle_buffer"}

\* After Startup. main inserts UseGpuIntegration(false) and AllowCopy(false)
\* before the plugin's Startup systems run; init_allow_copy and
\* init_use_gpu_integration then insert AllowCopy(true) and
\* UseGpuIntegration(true) over them. The particle buffer holds the seeded
\* particles and no pipeline has been queued.
ParityInit ==
    /\ particles = <<>>
    /\ cgrid = NoGrid
    /\ hgrid = NoHashGrid
    /\ GpuIdle
    /\ fphase = "off"
    /\ pipes = [p \in Pipelines |-> "none"]
    /\ ran = <<>>
    /\ dispatched = <<>>
    /\ dphase = "update"
    /\ systems_run = {}
    /\ use_gpu_integration = TRUE
    /\ host_ver = 0
    /\ gpu_ver = 0
    /\ rb_ver = -1
    /\ grid_ver = 0
    /\ allow_copy = TRUE
    /\ ext_allow_copy = TRUE
    /\ fsm = 0
    /\ consumed = <<>>
    /\ StepIdle
    /\ EngIdle
    /\ prev_grid = NoPrevGrid
    /\ rb_sys = "gpu_parity10"
    /\ rb_state = 0
    /\ rb_done = FALSE
    /\ rb_frames = 0
    /\ rb_pc = "out"
    /\ map_status = 0
    /\ rb_mapped = FALSE
    /\ rb_log = <<>>
    /\ rb_last = "none"
    /\ rb_cpu = <<>>
    /\ rb_gpu = <<>>
    /\ rb_report = <<>>
    /\ rb_outcome = "none"

\* One call of readback: the arm of its state, the map and the comparison of
\* arm 3 taken as one step.
ParityReadback ==
    /\ dphase = "update"
    /\ rb_outcome = "none"
    /\ "readback" \notin systems_run
    /\ systems_run' = systems_run \cup {"readback"}
    /\ rb_frames' = rb_frames + 1
    /\ LET frame == rb_frames + 1
       IN \/ /\ rb_state = 0
             /\ IF host_ver < PARITY_STEPS
                THEN /\ host_ver' = host_ver + 1
                     /\ rb_state' = IF host_ver + 1 = PARITY_STEPS THEN 1 ELSE 0
                ELSE UNCHANGED <<host_ver, rb_state>>
             /\ UNCHANGED <<allow_copy, rb_last, rb_outcome>>
          \/ /\ rb_state = 1
             /\ IF frame >= COPY_ON_FRAME
                THEN allow_copy' = TRUE /\ rb_state' = 2
                ELSE UNCHANGED <<allow_copy, rb_state>>
             /\ UNCHANGED <<host_ver, rb_last, rb_outcome>>
          \/ /\ rb_state = 2
             /\ IF frame >= COPY_OFF_FRAME
                THEN allow_copy' = FALSE /\ rb_state' = 3
                ELSE UNCHANGED <<allow_copy, rb_state>>
             /\ UNCHANGED <<host_ver, rb_last, rb_outcome>>
          \/ /\ rb_state = 3
             /\ IF frame >= MAP_FRAME
                THEN /\ \E ok \in BOOLEAN :
                           rb_last' = IF ok THEN "ok" ELSE "failed"
                     /\ rb_outcome' = "exit"
                ELSE UNCHANGED <<rb_last, rb_outcome>>
             /\ UNCHANGED <<host_ver, allow_copy, rb_state>>
    /\ UNCHANGED <<gridVars, gpuVars, frameVars, stepVars, ext_allow_copy,
                   engVars, prev_grid, dphase, use_gpu_integration, gpu_ver,
                   rb_ver, grid_ver, fsm, consumed, rb_sys, rb_done, rb_pc,
                   map_status, rb_mapped, rb_log, rb_cpu, rb_gpu, rb_report>>

\* The Extract schedule after Update: extract_allow_copy.
ParityExtract ==
    /\ dphase = "update"
    /\ systems_run = ParityUpdateSystems
    /\ ext_allow_copy' = allow_copy
    /\ dphase' = "render"
    /\ UNCHANGED <<otherVars, gridVars, gpuVars, frameVars, stepVars,
                   systems_run, use_gpu_integration, host_ver, gpu_ver, rb_ver,
                   grid_ver, allow_copy, fsm, consumed>>

\* The render schedule of the frame: the Prepare set, the pipeline cache
\* (any queued stage pipeline may have compiled), then DensityNode, whose
\* integrate dispatch is a tick of the particle buffer and whose copy fills
\* the readback buffer.
ParityRender ==
    /\ dphase = "render"
    /\ rb_outcome = "none"
    /\ LET prepared == [p \in Pipelines |->
                          IF p \in Range(Stages)
                          THEN PrepareStagePipeline(pipes[p])
                          ELSE PrepareGridPipeline(pipes[p])]
           d == Range(DensityNodeDispatches(prepared, ext_allow_copy))
           after == IF "integrate" \in d THEN gpu_ver + 1 ELSE gpu_ver
       IN /\ gpu_ver' = after
          /\ rb_ver' = IF "copy" \in d THEN after ELSE rb_ver
          /\ \E done \in SUBSET {p \in Range(Stages) : prepared[p] = "queued"} :
                pipes' = [p \in Pipelines |->
                             IF p \in done THEN "compiled" ELSE prepared[p]]
    /\ dphase' = "update"
    /\ systems_run' = {}
    /\ UNCHANGED <<otherVars, gridVars, gpuVars, fphase, ran, dispatched,
                   stepVars, use_gpu_integration, host_ver, grid_ver,
                   allow_copy, ext_allow_copy, fsm, consumed>>

ParityNext ==
    \/ ParityReadback
    \/ QueueParticleBuffer
    \/ ParityExtract
    \/ ParityRender

ParitySpec == ParityInit /\ [][ParityNext]_vars

\* readback has mapped the readback buffer and compared.
ParityCompared == dphase # "off" /\ rb_sys = "gpu_parity10" /\ rb_last = "ok"

\* C20: in the 10-step parity run, the particle buffer that is copied for
\* the comparison is 10 ticks from the seeded state, as many as the host
\* engine has stepped, whatever the order of readback and
\* queue_particle_buffer in a frame and whatever the frame at which the
\* pipelines become ready.
C20_EqualTicksAtCopy ==
    ParityCompared => host_ver = PARITY_STEPS /\ rb_ver = host_ver

\* The comparison has run on a readback buffer that is fewer ticks from the
\* seed than the host engine: the pipelines were not ready in the second
\* frame.
C20_Witness ==
    /\ ParityCompared
    /\ host_ver = PARITY_STEPS
    /\ rb_ver >= 0
    /\ rb_ver < host_ver

\* The host engine has always stepped 10 times when the comparison runs, and
\* the readback buffer is never more ticks from the seed than that.
ParityAtMostTen ==
    ParityCompared => host_ver = PARITY_STEPS /\ rb_ver <= PARITY_STEPS

\* The comparison has run on equal ticks: every stage pipeline compiled in
\* the first frame.
ParityEqualTicks == ParityCompared /\ rb_ver = host_ver

\* --------------------------------- the readback systems frame by frame
\* One of the four readback systems under GPUSPHPlugin: the system is called
\* once in Update, extract_allow_copy runs after Update, and DensityNode runs
\* in the render schedule that follows, at the same time as the next Update
\* under pipelined rendering. rb_state is the Local state (fsm in the demo),
\* rb_frames the Local frame counter, host_ver the steps of the host engine,
\* rb_ver -1 until a copy has been encoded, and dispatched what DensityNode
\* encoded in the latest render schedule.

\* const STEPS: u32 = 10 (gpu_integration_parity.rs line 16)
STEPS == 10

\* The arm that maps with a failure arm that returns without unmap().
MapAndReadLeavesMapped(outcomes, failed) ==
    \E ok \in BOOLEAN :
       IF ok
       THEN /\ rb_log' = <<"map_async", "cb_ok", "read", "unmap">>
            /\ rb_last' = "ok"
            /\ rb_outcome' \in outcomes
            /\ rb_mapped' = FALSE
       ELSE /\ rb_log' = <<"map_async", "cb_err">>
            /\ rb_last' = "failed"
            /\ rb_outcome' = failed
            /\ rb_mapped' = TRUE

\* The arm that maps: map_async, the wait loop, then either the read and
\* unmap() or, when the map failed, unmap() alone. The call returns with the
\* buffer unmapped.
MapAndRead(outcomes, failed) ==
    /\ \E ok \in BOOLEAN :
          IF ok
          THEN /\ rb_log' = <<"map_async", "cb_ok", "read", "unmap">>
               /\ rb_last' = "ok"
               /\ rb_outcome' \in outcomes
          ELSE /\ rb_log' = <<"map_async", "cb_err", "unmap">>
               /\ rb_last' = "failed"
               /\ rb_outcome' = failed
    /\ rb_mapped' = FALSE

\* The call returns from an arm that does not map.
NoMap == rb_log' = <<>> /\ UNCHANGED <<rb_last, rb_outcome, rb_mapped>>

\* readback_and_compare
ReadbackAndCompareCall ==
    /\ rb_sys = "readback_and_compare"
    /\ IF rb_done
       THEN NoMap /\ UNCHANGED <<rb_frames, rb_state, rb_done, allow_copy>>
       ELSE /\ rb_frames' = Min(rb_frames + 1, FRAMES_BEFORE_RD)
            /\ IF rb_frames + 1 < FRAMES_BEFORE_RD
               THEN NoMap /\ UNCHANGED <<rb_state, rb_done, allow_copy>>
               ELSE IF rb_state = 0
               THEN /\ allow_copy' = FALSE
                    /\ rb_state' = 1
                    /\ NoMap
                    /\ UNCHANGED rb_done
               ELSE IF rb_state = 1
               THEN /\ MapAndRead({"pass", "panic"}, "none")
                    /\ rb_done' = TRUE
                    /\ rb_state' = 2
                    /\ UNCHANGED allow_copy
               ELSE NoMap /\ UNCHANGED <<rb_state, rb_done, allow_copy>>
    /\ UNCHANGED <<host_ver, use_gpu_integration>>

\* sync_sprites_from_gpu (gpu_demo.rs): the read mirrors the readback buffer
\* into the host engine.
SyncSpritesCall ==
    /\ rb_sys = "gpu_demo"
    /\ IF rb_state = 3
       THEN /\ MapAndRead({"none"}, "none")
            /\ rb_state' = IF rb_last' = "ok" THEN 4 ELSE 0
            /\ host_ver' = IF rb_last' = "ok" THEN rb_ver ELSE host_ver
            /\ UNCHANGED allow_copy
       ELSE /\ NoMap
            /\ rb_state' = IF rb_state = 0 THEN 1
                           ELSE IF rb_state = 1 THEN 2
                           ELSE IF rb_state = 2 THEN 3
                           ELSE 0
            /\ allow_copy' = IF rb_state = 0 THEN TRUE
                             ELSE IF rb_state \in {1, 4} THEN FALSE
                             ELSE allow_copy
            /\ UNCHANGED host_ver
    /\ UNCHANGED <<rb_frames, rb_done, use_gpu_integration>>

\* readback (gpu_parity10.rs): frame is followed up to MAP_FRAME.
Parity10Call ==
    /\ rb_sys = "gpu_parity10"
    /\ rb_frames' = Min(rb_frames + 1, MAP_FRAME)
    /\ LET frame == rb_frames + 1
       IN IF rb_state = 0
          THEN /\ IF host_ver < PARITY_STEPS
                  THEN /\ host_ver' = host_ver + 1
                       /\ rb_state' = IF host_ver + 1 = PARITY_STEPS
                                      THEN 1 ELSE 0
                  ELSE UNCHANGED <<host_ver, rb_state>>
               /\ NoMap
               /\ UNCHANGED allow_copy
          ELSE IF rb_state = 1
          THEN /\ IF frame >= COPY_ON_FRAME
                  THEN allow_copy' = TRUE /\ rb_state' = 2
                  ELSE UNCHANGED <<allow_copy, rb_state>>
               /\ NoMap
               /\ UNCHANGED host_ver
          ELSE IF rb_state = 2
          THEN /\ IF frame >= COPY_OFF_FRAME
                  THEN allow_copy' = FALSE /\ rb_state' = 3
                  ELSE UNCHANGED <<allow_copy, rb_state>>
               /\ NoMap
               /\ UNCHANGED host_ver
          ELSE /\ IF rb_state = 3 /\ frame >= MAP_FRAME
                  THEN MapAndRead({"exit", "panic"}, "exit")
                  ELSE NoMap
               /\ UNCHANGED <<host_ver, allow_copy, rb_state>>
    /\ UNCHANGED <<rb_done, use_gpu_integration>>

\* orchestrate_100 (gpu_integration_parity.rs): frame is followed up to 2.
Orchestrate100Call ==
    /\ rb_sys = "gpu_integration_parity"
    /\ rb_frames' = Min(rb_frames + 1, 2)
    /\ IF rb_state = 0
       THEN /\ use_gpu_integration' =
                  IF rb_frames + 1 = 2 THEN TRUE ELSE use_gpu_integration
            /\ IF host_ver < STEPS
               THEN /\ host_ver' = host_ver + 1
                    /\ rb_state' = IF host_ver + 1 = STEPS THEN 1 ELSE 0
               ELSE UNCHANGED <<host_ver, rb_state>>
            /\ NoMap
            /\ UNCHANGED allow_copy
       ELSE IF rb_state = 1
       THEN /\ allow_copy' = TRUE
            /\ rb_state' = 2
            /\ NoMap
            /\ UNCHANGED <<host_ver, use_gpu_integration>>
       ELSE IF rb_state = 2
       THEN /\ allow_copy' = FALSE
            /\ rb_state' = 3
            /\ NoMap
            /\ UNCHANGED <<host_ver, use_gpu_integration>>
       ELSE /\ IF rb_state = 3
               THEN MapAndRead({"exit", "panic"}, "exit")
               ELSE NoMap
            /\ UNCHANGED <<host_ver, allow_copy, rb_state, use_gpu_integration>>
    /\ UNCHANGED rb_done

\* The Update call of the app's readback system; a panic or AppExit ends
\* the run.
ReadbackCall ==
    /\ dphase = "update"
    /\ RbRunning
    /\ "readback" \notin systems_run
    /\ systems_run' = systems_run \cup {"readback"}
    /\ \/ ReadbackAndCompareCall
       \/ SyncSpritesCall
       \/ Parity10Call
       \/ Orchestrate100Call
    /\ UNCHANGED <<gridVars, gpuVars, frameVars, stepVars, ext_allow_copy,
                   engVars, prev_grid, dphase, gpu_ver, rb_ver, grid_ver, fsm,
                   consumed, rb_sys, rb_pc, map_status, rb_cpu, rb_gpu,
                   rb_report>>

\* The render schedule of the frame: the Prepare set, the pipeline cache
\* (any queued stage pipeline may have compiled), then DensityNode; the
\* ticks of the particle buffer are followed up to MaxFrames.
ReadbackRender ==
    /\ dphase = "render"
    /\ LET prepared == [p \in Pipelines |->
                          IF p \in Range(Stages)
                          THEN PrepareStagePipeline(pipes[p])
                          ELSE PrepareGridPipeline(pipes[p])]
           d == DensityNodeDispatches(prepared, ext_allow_copy)
           after == IF "integrate" \in Range(d)
                    THEN Min(gpu_ver + 1, MaxFrames) ELSE gpu_ver
       IN /\ dispatched' = d
          /\ gpu_ver' = after
          /\ rb_ver' = IF "copy" \in Range(d) THEN after ELSE rb_ver
          /\ \E done \in SUBSET {p \in Range(Stages) : prepared[p] = "queued"} :
                pipes' = [p \in Pipelines |->
                             IF p \in done THEN "compiled" ELSE prepared[p]]
    /\ dphase' = "update"
    /\ systems_run' = {}
    /\ UNCHANGED <<otherVars, gridVars, gpuVars, fphase, ran, stepVars,
                   use_gpu_integration, host_ver, grid_ver, allow_copy,
                   ext_allow_copy, fsm, consumed>>

\* After Startup: init_allow_copy has inserted AllowCopy(true) and
\* init_use_gpu_integration UseGpuIntegration(true) over what main inserted;
\* nothing has been extracted, and DensityNode takes a missing
\* ExtractedAllowCopy as true.
ReadbackFrameInit ==
    /\ particles = <<>>
    /\ cgrid = NoGrid
    /\ hgrid = NoHashGrid
    /\ GpuIdle
    /\ fphase = "off"
    /\ pipes = [p \in Pipelines |-> "none"]
    /\ ran = <<>>
    /\ dispatched = <<>>
    /\ dphase = "update"
    /\ systems_run = {}
    /\ use_gpu_integration = TRUE
    /\ host_ver = 0
    /\ gpu_ver = 0
    /\ rb_ver = -1
    /\ grid_ver = 0
    /\ allow_copy = TRUE
    /\ ext_allow_copy = TRUE
    /\ fsm = 0
    /\ consumed = <<>>
    /\ StepIdle
    /\ EngIdle
    /\ prev_grid = NoPrevGrid
    /\ rb_sys \in RbSystems
    /\ rb_state = 0
    /\ rb_done = FALSE
    /\ rb_frames = 0
    /\ rb_pc = "out"
    /\ map_status = 0
    /\ rb_mapped = FALSE
    /\ rb_log = <<>>
    /\ rb_last = "none"
    /\ rb_cpu = <<>>
    /\ rb_gpu = <<>>
    /\ rb_report = <<>>
    /\ rb_outcome = "none"

ReadbackFrameNext ==
    \/ ReadbackCall
    \/ QueueParticleBuffer
    \/ ParityExtract
    \/ ReadbackRender

ReadbackFrameSpec == ReadbackFrameInit /\ [][ReadbackFrameNext]_vars

\* The readback system has been called in this frame's Update and has asked
\* for the map; the render schedule extracted after the Update before is the
\* one that may still run.
MapRequested ==
    /\ dphase = "update"
    /\ "readback" \in systems_run
    /\ LogAt("map_async") # {}

IsReadbackAndCompare == rb_sys = "readback_and_compare"

\* The step is the Update call of the readback system.
IsReadbackCall ==
    "readback" \notin systems_run /\ "readback" \in systems_run'

\* C30: readback_and_compare has been called 60 times or more whenever it
\* has mapped or compared; the call that maps sets done and returns with the
\* buffer unmapped, whether the map failed, the comparison passed or it
\* failed; once done is set it stays set and no later call maps or compares;
\* and no call changes the host engine's particles, the particle buffer or
\* the readback buffer.
C30_OneCompareAfterWarmUp ==
    /\ [](IsReadbackAndCompare =>
            /\ rb_log # <<>> =>
                  /\ rb_frames >= FRAMES_BEFORE_RD
                  /\ rb_done
                  /\ rb_state = 2
                  /\ rb_log[Len(rb_log)] = "unmap"
            /\ ~rb_mapped
            /\ rb_done => rb_last # "none"
            /\ rb_last # "none" => rb_done)
    /\ [][IsReadbackAndCompare =>
            /\ rb_done => rb_done' /\ rb_log' \in {rb_log, <<>>}
                          /\ rb_last' = rb_last
            /\ IsReadbackCall =>
                  UNCHANGED <<host_ver, gpu_ver, rb_ver, use_gpu_integration>>]_vars

\* readback_and_compare has compared and passed in an earlier frame, and the
\* call of this frame has returned at once.
C30_Witness ==
    /\ IsReadbackAndCompare
    /\ rb_done
    /\ rb_outcome = "pass"
    /\ rb_last = "ok"
    /\ "readback" \in systems_run
    /\ rb_log = <<>>
    /\ rb_frames = FRAMES_BEFORE_RD

\* The map of readback_and_compare has failed: done is set and the buffer
\* unmapped.
FailedMapEndsRun ==
    /\ IsReadbackAndCompare
    /\ rb_done
    /\ rb_log = <<"map_async", "cb_err", "unmap">>

\* The call before the map: 60 calls made, AllowCopy stored, nothing mapped.
ArmedAtSixty ==
    /\ IsReadbackAndCompare
    /\ rb_frames = FRAMES_BEFORE_RD
    /\ rb_state = 1
    /\ ~rb_done
    /\ rb_log = <<>>

====
